---- MODULE Spec2Model ----
(***************************************************************************)
(* State-machine model of the zettelfiles package (mms-obsidian):          *)
(*   utils.py            Folgezettel ID grammar, parents, child allocation *)
(*   atomic_ops.py       per-path locks and the atomic move/rename/create  *)
(*   zettelrename.py     rename of a note and rewriting of links to it     *)
(*   get_hierarchy.py    build_combined_graph                              *)
(*   file_operations.py  move_files over the FileGraph                     *)
(* Strings whose characters the code inspects (IDs) are sequences of       *)
(* one-character strings; Python index i is TLA+ index i + 1.              *)
(***************************************************************************)
EXTENDS Integers, Sequences, FiniteSets, TLC

VARIABLES
    id_in,        \* utils: the string handed to is_valid_node_id
    id_pc,        \* utils: "input" before the call, "done" after it
    id_valid,     \* utils: the value is_valid_node_id returned
    id_graph,     \* utils: the graph handed to get_next_available_child_id
    id_call,      \* utils: the last call of an ID function and its result
    file_locks,   \* atomic_ops: AtomicFileOps._file_locks, path -> lock object
    lock_owner,   \* atomic_ops: per lock object, the thread that holds it
    th_pc,        \* atomic_ops: per thread, its position in the operation
    th_kind,      \* atomic_ops: per thread, the operation it runs or "returned"
    th_plan,      \* atomic_ops: per thread, the paths it locks, in order
    th_refs,      \* atomic_ops: per thread, the lock objects it has acquired
    th_cur,       \* atomic_ops: per thread, the local `lock` of _get_file_lock
    os_name,      \* the platform: "posix" or "nt" (decides os.rename onto a file)
    afs,          \* atomic_ops: the files on disk, path -> content
    afs_before,   \* atomic_ops: the disk when the last atomic call began
    a_call,       \* atomic_ops: the last atomic call, its arguments and result
    rfs,          \* zettelrename: the files on disk, path -> text (list of tokens)
    rfs_before,   \* zettelrename: the disk when the last rename call began
    r_call,       \* zettelrename: the last call, its arguments and result
    rstat,        \* get_hierarchy: os.stat of the files, path -> times
    rstat_before, \* get_hierarchy: os.stat of the files when the call began
    graph,        \* file_graph: the FileGraph object, one field per attribute
    disk,         \* file_operations: the paths of the files on disk
    m_call,       \* file_operations: the last move_files call and its result
    m_count,      \* file_operations: the number of calls made on the graph
    dir_tree,     \* get_hierarchy: the directory tree the graph is built over
    mv_pc,        \* file_operations: per thread, its position in move_files
    mv_loc        \* file_operations: per thread, the locals of move_files

idVars == <<id_in, id_pc, id_valid, id_graph, id_call>>
lockVars == <<file_locks, lock_owner, th_pc, th_kind, th_plan, th_refs, th_cur>>
afsVars == <<afs, afs_before, a_call>>
renVars == <<rfs, rfs_before, r_call, rstat, rstat_before>>
moveVars == <<graph, disk, m_call, m_count, dir_tree, mv_pc, mv_loc>>

vars == <<id_in, id_pc, id_valid, id_graph, id_call,
          file_locks, lock_owner, th_pc, th_kind, th_plan, th_refs, th_cur,
          os_name, afs, afs_before, a_call, rfs, rfs_before, r_call,
          rstat, rstat_before,
          graph, disk, m_call, m_count, dir_tree, mv_pc, mv_loc>>

\* What the actions of one component leave alone: the other components.
notIdVars == <<os_name, lockVars, afsVars, renVars, moveVars>>
notLockVars == <<os_name, idVars, afsVars, renVars, moveVars>>
notAfsVars == <<os_name, idVars, lockVars, renVars, moveVars>>
notRenVars == <<os_name, idVars, lockVars, afsVars, moveVars>>
notMoveVars == <<idVars, lockVars, afsVars, renVars>>

(***************************************************************************)
(* utils.py: the ID grammar                                                *)
(***************************************************************************)

\* Longest input string of the ID functions that is enumerated.
MaxIdLen == 5

\* Characters the enumerated inputs are built from: two digits, a letter
\* and one of the special characters.
IdChars == {"0", "1", "a", "_"}

\* str.isdigit() on one character (ASCII inputs).
IsDigit(c) == c \in {"0", "1", "2", "3", "4", "5", "6", "7", "8", "9"}

\* The literal "!@#$%^&*_" of is_valid_node_id.
SpecialChars == {"!", "@", "#", "$", "%", "^", "&", "*", "_"}

\* node_id[pos], Python indexing.
At(s, pos) == s[pos + 1]

\* The single trailing special character consumed at the end of one loop
\* iteration (utils.py lines 55-58): the position after it.
SkipTrailingSpecial(s, pos) ==
    IF pos = Len(s) - 1 /\ At(s, pos) \in SpecialChars THEN pos + 1 ELSE pos

\* The hop check as is_valid_node_id writes it (utils.py line 43): the hop
\* is refused only when NEITHER of the two characters is a digit.
HopDigitsRefused(s, pos) == ~IsDigit(At(s, pos)) /\ ~IsDigit(At(s, pos + 1))

\* The while loop of is_valid_node_id from position pos on.
RECURSIVE ValidLoop(_, _)
ValidLoop(s, pos) ==
    IF pos >= Len(s) THEN TRUE
    ELSE IF IsDigit(At(s, pos)) THEN FALSE
    ELSE LET p1 == pos + 1 IN
         IF p1 <= Len(s) - 2
         THEN IF HopDigitsRefused(s, p1) THEN FALSE
              ELSE ValidLoop(s, SkipTrailingSpecial(s, p1 + 2))
         ELSE IF p1 = Len(s) - 1
         THEN IF At(s, p1) \notin SpecialChars THEN FALSE
              ELSE ValidLoop(s, SkipTrailingSpecial(s, p1))
         ELSE ValidLoop(s, p1)

is_valid_node_id(s) ==
    IF Len(s) < 2 THEN FALSE
    ELSE IF Len(s) = 2 THEN IsDigit(s[1]) /\ IsDigit(s[2])
    ELSE IF ~(IsDigit(s[1]) /\ IsDigit(s[2])) THEN FALSE
    ELSE ValidLoop(s, 2)

\* All strings over IdChars of length at most n.
RECURSIVE StringsUpTo(_)
StringsUpTo(n) ==
    IF n = 0 THEN {<<>>}
    ELSE LET shorter == StringsUpTo(n - 1) IN
         shorter \cup {Append(s, c) : s \in {t \in shorter : Len(t) = n - 1}, c \in IdChars}

IdInit ==
    /\ id_in \in StringsUpTo(MaxIdLen)
    /\ id_pc = "input"
    /\ id_valid = FALSE
    /\ id_graph = <<>>
    /\ id_call = [op |-> "none"]

\* One call is_valid_node_id(id_in).
Validate ==
    /\ id_pc = "input"
    /\ id_valid' = is_valid_node_id(id_in)
    /\ id_pc' = "done"
    /\ UNCHANGED <<id_in, id_graph, id_call, notIdVars>>

IdNext == Validate

\* The ID functions are not running.
IdIdle ==
    /\ id_in = <<>>
    /\ id_pc = "off"
    /\ id_valid = FALSE
    /\ id_graph = <<>>
    /\ id_call = [op |-> "none"]

(***************************************************************************)
(* atomic_ops.py: AtomicFileOps, the per-path locks.  Paths are numbered   *)
(* in their sort order (path 1 < path 2 < ...), which is all sorted()      *)
(* reads of them.  A lock object is a number; 0 stands for "none".         *)
(***************************************************************************)

\* Number of distinct paths the operations are called with.
NumPaths == 2

\* Number of threads calling into one AtomicFileOps object.
NumThreads == 2

\* Longest source_paths list handed to atomic_move.
MaxSources == 2

Paths == 1..NumPaths
Threads == 1..NumThreads
NoLock == 0
NoThread == 0

\* Enough lock objects for every table entry and every local reference.
LockIds == 1..(NumPaths + NumThreads * (MaxSources + 2))

\* sorted(seq) for a list of paths.
RECURSIVE Insert(_, _)
Insert(sorted, x) ==
    IF sorted = <<>> \/ x < Head(sorted) THEN <<x>> \o sorted
    ELSE <<Head(sorted)>> \o Insert(Tail(sorted), x)

RECURSIVE Sorted(_)
Sorted(seq) ==
    IF seq = <<>> THEN <<>> ELSE Insert(Sorted(Tail(seq)), Head(seq))

\* Non-empty lists of paths of length at most n.
RECURSIVE PathLists(_)
PathLists(n) ==
    IF n = 0 THEN {}
    ELSE {<<p>> : p \in Paths}
         \cup {Append(l, p) : l \in PathLists(n - 1), p \in Paths}

\* Order in which atomic_move enters the locks: the target directory first,
\* then the sources in sorted order (atomic_ops.py lines 49-58).
MoveLockOrder(source_paths, target_dir) == <<target_dir>> \o Sorted(source_paths)

\* Order in which atomic_rename enters the locks (atomic_ops.py line 101).
RenameLockOrder(old_path, new_path) == Sorted(<<old_path, new_path>>)

\* Lock objects something still refers to: the table or a thread's locals.
LocksInUse ==
    {file_locks[p] : p \in Paths}
    \cup UNION {{th_refs[t][i] : i \in 1..Len(th_refs[t])} : t \in Threads}
    \cup {th_cur[t] : t \in Threads}

\* threading.Lock(): a new, unlocked lock object.
NewLock == CHOOSE l \in LockIds : l \notin LocksInUse /\ \A k \in LockIds : k < l => k \in LocksInUse

LockInit ==
    /\ file_locks = [p \in Paths |-> NoLock]
    /\ lock_owner = [l \in LockIds |-> NoThread]
    /\ th_pc = [t \in Threads |-> "idle"]
    /\ th_kind = [t \in Threads |-> "none"]
    /\ th_plan = [t \in Threads |-> <<>>]
    /\ th_refs = [t \in Threads |-> <<>>]
    /\ th_cur = [t \in Threads |-> NoLock]

\* No AtomicFileOps object exists.
LockIdle ==
    /\ file_locks = <<>>
    /\ lock_owner = <<>>
    /\ th_pc = <<>>
    /\ th_kind = <<>>
    /\ th_plan = <<>>
    /\ th_refs = <<>>
    /\ th_cur = <<>>

\* A thread enters an operation: the paths it will lock, in order.
Begin(t, kind, plan) ==
    /\ th_pc[t] = "idle"
    /\ th_kind' = [th_kind EXCEPT ![t] = kind]
    /\ th_plan' = [th_plan EXCEPT ![t] = plan]
    /\ th_pc' = [th_pc EXCEPT ![t] = "lookup"]
    /\ UNCHANGED <<file_locks, lock_owner, th_refs, th_cur, notLockVars>>

atomic_create_call(t) ==
    \E path \in Paths : Begin(t, "create", <<path>>)

atomic_rename_call(t) ==
    \E old_path \in Paths, new_path \in Paths :
        Begin(t, "rename", RenameLockOrder(old_path, new_path))

atomic_move_call(t) ==
    \E source_paths \in PathLists(MaxSources), target_dir \in Paths :
        Begin(t, "move", MoveLockOrder(source_paths, target_dir))

\* _get_file_lock, the block under _locks_lock (lines 18-21): create the
\* table entry when absent, take the entry as the local `lock`.
GetFileLock(t) ==
    /\ th_pc[t] = "lookup"
    /\ LET path == th_plan[t][Len(th_refs[t]) + 1]
           table == IF file_locks[path] = NoLock
                    THEN [file_locks EXCEPT ![path] = NewLock]
                    ELSE file_locks
       IN /\ file_locks' = table
          /\ th_cur' = [th_cur EXCEPT ![t] = table[path]]
    /\ th_pc' = [th_pc EXCEPT ![t] = "acquire"]
    /\ UNCHANGED <<lock_owner, th_kind, th_plan, th_refs, notLockVars>>

\* lock.acquire() (line 24): blocks while the lock object is held.
Acquire(t) ==
    /\ th_pc[t] = "acquire"
    /\ lock_owner[th_cur[t]] = NoThread
    /\ lock_owner' = [lock_owner EXCEPT ![th_cur[t]] = t]
    /\ th_refs' = [th_refs EXCEPT ![t] = Append(@, th_cur[t])]
    /\ th_pc' = [th_pc EXCEPT ![t] =
                    IF Len(th_refs[t]) + 1 = Len(th_plan[t]) THEN "body" ELSE "lookup"]
    /\ UNCHANGED <<file_locks, th_kind, th_plan, th_cur, notLockVars>>

\* The guarded section: the filesystem effect and the update callback.
Body(t) ==
    /\ th_pc[t] = "body"
    /\ th_pc' = [th_pc EXCEPT ![t] = "release"]
    /\ UNCHANGED <<file_locks, lock_owner, th_kind, th_plan, th_refs, th_cur, notLockVars>>

\* lock.release() (line 27) of the lock entered last.
Release(t) ==
    /\ th_pc[t] = "release"
    /\ LET n == Len(th_refs[t])
           lock == th_refs[t][n]
       IN /\ lock_owner' = [lock_owner EXCEPT ![lock] = NoThread]
          /\ th_cur' = [th_cur EXCEPT ![t] = lock]
          /\ th_refs' = [th_refs EXCEPT ![t] = SubSeq(@, 1, n - 1)]
    /\ th_pc' = [th_pc EXCEPT ![t] = "cleanup"]
    /\ UNCHANGED <<file_locks, th_kind, th_plan, notLockVars>>

\* A clean-up that leaves every table entry in place.
NeverDeletes(path, lock) == FALSE

\* Whether the clean-up deletes the table entry (line 30).
CleanupDeletes(path, lock) ==
    file_locks[path] # NoLock /\ lock_owner[lock] = NoThread

\* The clean-up under _locks_lock (lines 29-31).
Cleanup(t) ==
    /\ th_pc[t] = "cleanup"
    /\ LET path == th_plan[t][Len(th_refs[t]) + 1] IN
       file_locks' = IF CleanupDeletes(path, th_cur[t])
                     THEN [file_locks EXCEPT ![path] = NoLock]
                     ELSE file_locks
    /\ IF th_refs[t] = <<>>
       THEN /\ th_pc' = [th_pc EXCEPT ![t] = "idle"]
            /\ th_kind' = [th_kind EXCEPT ![t] = "returned"]
            /\ th_plan' = [th_plan EXCEPT ![t] = <<>>]
       ELSE /\ th_pc' = [th_pc EXCEPT ![t] = "release"]
            /\ UNCHANGED <<th_kind, th_plan>>
    /\ th_cur' = [th_cur EXCEPT ![t] = NoLock]
    /\ UNCHANGED <<lock_owner, th_refs, notLockVars>>

\* Threads that each enter one path's lock at a time, as atomic_create
\* does.
LockTableNext ==
    \/ \E t \in Threads : atomic_create_call(t)
    \/ \E t \in Threads : GetFileLock(t)
    \/ \E t \in Threads : Acquire(t)
    \/ \E t \in Threads : Body(t)
    \/ \E t \in Threads : Release(t)
    \/ \E t \in Threads : Cleanup(t)

LockNext ==
    \/ \E t \in Threads : atomic_create_call(t)
    \/ \E t \in Threads : atomic_rename_call(t)
    \/ \E t \in Threads : atomic_move_call(t)
    \/ \E t \in Threads : GetFileLock(t)
    \/ \E t \in Threads : Acquire(t)
    \/ \E t \in Threads : Body(t)
    \/ \E t \in Threads : Release(t)
    \/ \E t \in Threads : Cleanup(t)

(***************************************************************************)
(* atomic_ops.py: the filesystem effects of the atomic operations, one     *)
(* call at a time.  A file path is a number: directory d (1..NumDirs) and  *)
(* basename b (1..NumBases) give path (d - 1) * NumBases + b, so that the  *)
(* numbers sort as the path strings do.  A file's content is a number; the *)
(* file first found at path p holds content p.                             *)
(***************************************************************************)

\* Number of directories of the tree.
NumDirs == 3

\* Number of distinct basenames.
NumBases == 2

\* Longest source_paths list of an atomic_move call with effects.
MaxBatch == 2

Dirs == 1..NumDirs
Bases == 1..NumBases
FilePaths == 1..(NumDirs * NumBases)
NoFile == 0
NewContent == NumDirs * NumBases + 1

\* os.path.join(dir, base), os.path.dirname and os.path.basename.
JoinPath(dir, base) == (dir - 1) * NumBases + base
DirName(path) == ((path - 1) \div NumBases) + 1
BaseName(path) == ((path - 1) % NumBases) + 1

\* os.path.exists(path).
Exists(fs, path) == fs[path] # NoFile

\* shutil.move / os.rename of a file onto dst, replacing what is there.
MoveFile(fs, src, dst) ==
    IF src = dst THEN fs
    ELSE [fs EXCEPT ![dst] = fs[src], ![src] = NoFile]

\* Non-empty lists of file paths of length at most n.
RECURSIVE FileLists(_)
FileLists(n) ==
    IF n = 0 THEN {}
    ELSE {<<p>> : p \in FilePaths}
         \cup {Append(l, p) : l \in FileLists(n - 1), p \in FilePaths}

\* The move loop of atomic_move (lines 65-68) from the i-th sorted source
\* on: the disk, the affected_files list and whether a move raised.
\* fail_at names a move that raises for a reason of its own (0: none); a
\* move of a missing source raises FileNotFoundError.
RECURSIVE MoveLoop(_, _, _, _, _, _)
MoveLoop(fs, sorted_paths, target_dir, i, affected, fail_at) ==
    IF i > Len(sorted_paths)
    THEN [fs |-> fs, affected |-> affected, raised |-> FALSE]
    ELSE LET source_path == sorted_paths[i]
             target_path == JoinPath(target_dir, BaseName(source_path))
         IN IF i = fail_at \/ ~Exists(fs, source_path)
            THEN [fs |-> fs, affected |-> affected, raised |-> TRUE]
            ELSE MoveLoop(MoveFile(fs, source_path, target_path), sorted_paths,
                          target_dir, i + 1, Append(affected, target_path), fail_at)

\* _rollback_moves (lines 166-173): zip(moved_files, original_paths) from
\* the i-th pair on.
RECURSIVE RollbackMoves(_, _, _, _)
RollbackMoves(fs, moved_files, original_paths, i) ==
    IF i > Len(moved_files) \/ i > Len(original_paths) THEN fs
    ELSE LET new_path == moved_files[i]
             old_path == original_paths[i]
         IN RollbackMoves(IF Exists(fs, new_path)
                          THEN MoveFile(fs, new_path, old_path)
                          ELSE fs,
                          moved_files, original_paths, i + 1)

\* A tree of files, each present with its own content or absent.
AfsTreeInit ==
    /\ afs \in {[p \in FilePaths |-> IF p \in present THEN p ELSE NoFile] :
                    present \in SUBSET FilePaths}
    /\ afs_before = afs
    /\ a_call = [op |-> "none"]

\* No tree is set up for the atomic operations.
AfsIdle ==
    /\ afs = <<>>
    /\ afs_before = <<>>
    /\ a_call = [op |-> "none"]

\* atomic_move(source_paths, target_dir, update_func), lines 60-80.
\* update_raises: the update callback raises after the moves.
atomic_move ==
    \E source_paths \in FileLists(MaxBatch), target_dir \in Dirs,
       fail_at \in 0..MaxBatch, update_raises \in BOOLEAN :
        /\ a_call.op = "none"
        /\ fail_at <= Len(source_paths)
        /\ LET sorted_paths == Sorted(source_paths)
               moved == MoveLoop(afs, sorted_paths, target_dir, 1, <<>>, fail_at)
               failed == moved.raised \/ update_raises
           IN /\ afs' = IF failed
                        THEN RollbackMoves(moved.fs, moved.affected, sorted_paths, 1)
                        ELSE moved.fs
              /\ a_call' = [op |-> "move", sources |-> source_paths,
                            target |-> target_dir, ok |-> ~failed]
        /\ afs_before' = afs
        /\ UNCHANGED notAfsVars

\* Whether os.rename(src, dst) of a file raises: the source is missing, or
\* the destination exists and the platform refuses to replace it.
OsRenameRaises(fs, os, src, dst) ==
    \/ ~Exists(fs, src)
    \/ src # dst /\ Exists(fs, dst) /\ os = "nt"

\* atomic_rename(old_path, new_path, update_func), lines 106-125, for two
\* different paths.  rename_raises: os.rename raises for a reason of its
\* own; update_raises: the update callback raises after the rename.  The
\* rollback renames new_path back when a file is there; a rollback that
\* raises is logged.
atomic_rename ==
    \E old_path \in FilePaths, new_path \in FilePaths,
       rename_raises \in BOOLEAN, update_raises \in BOOLEAN :
        /\ a_call.op = "none"
        /\ old_path # new_path
        /\ LET raised == rename_raises \/ OsRenameRaises(afs, os_name, old_path, new_path)
               renamed == IF raised THEN afs ELSE MoveFile(afs, old_path, new_path)
               failed == raised \/ update_raises
               rolled_back ==
                   IF Exists(renamed, new_path)
                      /\ ~OsRenameRaises(renamed, os_name, new_path, old_path)
                   THEN MoveFile(renamed, new_path, old_path)
                   ELSE renamed
           IN /\ afs' = IF failed THEN rolled_back ELSE renamed
              /\ a_call' = [op |-> "rename", old_path |-> old_path,
                            new_path |-> new_path, ok |-> ~failed]
        /\ afs_before' = afs
        /\ UNCHANGED notAfsVars

\* atomic_create(path, content, update_func), lines 141-164.  open_raises:
\* os.makedirs or open(path, 'w') raises; update_raises: the update callback
\* raises after the write.  The rollback removes the file at path when one
\* is there.
atomic_create ==
    \E path \in FilePaths, open_raises \in BOOLEAN, update_raises \in BOOLEAN :
        /\ a_call.op = "none"
        /\ LET written == IF open_raises THEN afs
                          ELSE [afs EXCEPT ![path] = NewContent]
               failed == open_raises \/ update_raises
               rolled_back ==
                   IF Exists(written, path)
                   THEN [written EXCEPT ![path] = NoFile]
                   ELSE written
           IN /\ afs' = IF failed THEN rolled_back ELSE written
              /\ a_call' = [op |-> "create", path |-> path, ok |-> ~failed]
        /\ afs_before' = afs
        /\ UNCHANGED notAfsVars

AfsNext == atomic_move \/ atomic_rename \/ atomic_create

(***************************************************************************)
(* zettelrename.py: rename_and_update_links.  The text of a file is a list *)
(* of tokens: the three link forms [[id name]], [[id]], [[id name|alias]]  *)
(* and plain text.  The regular expressions of the code match whole links, *)
(* so a substitution maps tokens to tokens.                                *)
(***************************************************************************)

\* Longest text (in tokens) of a referencing file that is enumerated.
MaxTokens == 2

Std(id, name) == [kind |-> "std", id |-> id, name |-> name, alias |-> ""]
IdOnly(id) == [kind |-> "id", id |-> id, name |-> "", alias |-> ""]
Alt(id, name, alias) == [kind |-> "alt", id |-> id, name |-> name, alias |-> alias]
Text(t) == [kind |-> "text", id |-> "", name |-> t, alias |-> ""]

\* The text of a path that holds no file.
Absent == <<[kind |-> "absent", id |-> "", name |-> "", alias |-> ""]>>

\* Note files, and the files that may refer to a note.
NotePaths ==
    {[stem |-> "n1", ext |-> ".md"], [stem |-> "n2", ext |-> ".md"],
     [stem |-> "n1", ext |-> ".jpg"]}
RefPaths == {[stem |-> "ref", ext |-> e] : e \in {".md", ".TXT", ".jpg"}}
RenPaths == NotePaths \cup RefPaths

\* The referencing file whose text is enumerated in full.
MainRef == [stem |-> "ref", ext |-> ".md"]

\* The paths a call is made with: the notes and one referencing file.
CallPaths == NotePaths \cup {MainRef}

\* The new IDs a call is made with: the old one and another one.
LinkIds == {"01a", "01b"}

\* Tokens of the enumerated texts.
RefTokens ==
    {Std("01a", "Test"), IdOnly("01a"), Alt("01a", "Test", "alias"),
     Std("01a", "New"), Text("words")}

\* Text of the other referencing files, when present: one link of each of
\* the two standard forms.
OtherRefText == <<Std("01a", "Test"), IdOnly("01a")>>

\* Texts of at most n tokens.
RECURSIVE TextsUpTo(_)
TextsUpTo(n) ==
    IF n = 0 THEN {<<>>}
    ELSE LET shorter == TextsUpTo(n - 1) IN
         shorter \cup {Append(s, k) : s \in {t \in shorter : Len(t) = n - 1}, k \in RefTokens}

\* str.lower() on the extensions in use.
Lower(ext) == IF ext = ".TXT" THEN ".txt" ELSE IF ext = ".MD" THEN ".md" ELSE ext

\* Every file type is taken for a rewritable one.
UpdateEveryType(file_extension) == TRUE

\* should_update_links (lines 96-102).
should_update_links(file_extension) == Lower(file_extension) \in {".md", ".txt"}

\* os.path.exists.
RExists(fs, path) == fs[path] # Absent

\* Whether os.rename(old_path, new_path) raises: the source is missing, or
\* the destination exists and the platform refuses to replace it.
RenameRaises(fs, os, old_path, new_path) ==
    \/ ~RExists(fs, old_path)
    \/ old_path # new_path /\ RExists(fs, new_path) /\ os = "nt"

\* The disk after a successful os.rename(old_path, new_path).
RenameFile(fs, old_path, new_path) ==
    IF old_path = new_path THEN fs
    ELSE [fs EXCEPT ![new_path] = fs[old_path], ![old_path] = Absent]

\* Whether a token matches one of the three patterns of find_links_to_file
\* and update_links_in_file for (node_id, name).
MatchesStd(tok, node_id, name) == tok.kind = "std" /\ tok.id = node_id /\ tok.name = name
MatchesIdOnly(tok, node_id) == tok.kind = "id" /\ tok.id = node_id
MatchesAlt(tok, node_id, name) == tok.kind = "alt" /\ tok.id = node_id /\ tok.name = name

\* find_links_to_file (lines 11-43): the files whose text has a match.
find_links_to_file(fs, node_id, name) ==
    {f \in RenPaths :
        /\ RExists(fs, f)
        /\ \E i \in 1..Len(fs[f]) :
               \/ MatchesStd(fs[f][i], node_id, name)
               \/ MatchesIdOnly(fs[f][i], node_id)
               \/ MatchesAlt(fs[f][i], node_id, name)}

\* pattern.endswith('\\]\\]"') at line 85: the patterns are built by
\* re.escape and end in \]\] ; none ends in a double quote.
PatternEndsWithQuote == FALSE

\* new_text for the two standard patterns (line 85).
StandardNewText(new_node_id, new_name) ==
    IF PatternEndsWithQuote THEN IdOnly(new_node_id) ELSE Std(new_node_id, new_name)

\* The three re.sub passes of update_links_in_file (lines 77-86), in order.
SubStd(text, old_id, old_name, new_id, new_name) ==
    [i \in 1..Len(text) |->
        IF MatchesStd(text[i], old_id, old_name)
        THEN StandardNewText(new_id, new_name) ELSE text[i]]

SubIdOnly(text, old_id, new_id, new_name) ==
    [i \in 1..Len(text) |->
        IF MatchesIdOnly(text[i], old_id)
        THEN StandardNewText(new_id, new_name) ELSE text[i]]

SubAlt(text, old_id, old_name, new_id, new_name) ==
    [i \in 1..Len(text) |->
        IF MatchesAlt(text[i], old_id, old_name)
        THEN Alt(new_id, new_name, text[i].alias) ELSE text[i]]

\* The text update_links_in_file writes back (lines 66-86).
UpdatedText(text, old_id, old_name, new_id, new_name) ==
    SubAlt(SubIdOnly(SubStd(text, old_id, old_name, new_id, new_name),
                     old_id, new_id, new_name),
           old_id, old_name, new_id, new_name)

\* update_links_in_file returns True: the file can be read and written.
\* unwritable: the files whose open() raises.
\* os.stat of a file: st_ctime_ns and st_mtime_ns.  The files of the tree
\* were written at CreatedAt; the call runs at CallTime.
CreatedAt == 1
CallTime == 2
NoStat == [ctime |-> 0, mtime |-> 0]
FreshStat == [ctime |-> CreatedAt, mtime |-> CreatedAt]

\* get_hierarchy.get_file_creation_time: the stable ID of a file.
get_file_creation_time(st) == IF st.ctime < st.mtime THEN st.ctime ELSE st.mtime

\* What os.rename does to the times of the renamed file: POSIX sets the
\* change time st_ctime; on Windows st_ctime is the creation time.
StatAfterRename(st, os, now) == IF os = "posix" THEN [st EXCEPT !.ctime = now] ELSE st

\* What open(file_path, 'w') and write do to the times of the file.
StatAfterWrite(st, os, now) ==
    IF os = "posix" THEN [ctime |-> now, mtime |-> now] ELSE [st EXCEPT !.mtime = now]

\* os.stat of all files after a successful os.rename(old_path, new_path).
RenameStat(stat, os, old_path, new_path, now) ==
    IF old_path = new_path THEN stat
    ELSE [stat EXCEPT ![new_path] = StatAfterRename(stat[old_path], os, now),
                      ![old_path] = NoStat]

\* The referencing files whose open(file_path, 'w') may raise, and the sets
\* of files for which it does in one call: at most one file.
MayFail == {MainRef, [stem |-> "ref", ext |-> ".TXT"]}
UnwritableSets == {{}} \cup {{f} : f \in MayFail}

\* update_links_in_file returns True: the file is there and can be written.
UpdateSucceeds(fs, file_path, unwritable) ==
    RExists(fs, file_path) /\ file_path \notin unwritable

\* The files rename_and_update_links rewrites (lines 133-144): the affected
\* files of a rewritable type whose update succeeds.
UpdatedFiles(fs, affected_files, unwritable) ==
    {f \in affected_files :
        should_update_links(f.ext) /\ UpdateSucceeds(fs, f, unwritable)}

RenInit ==
    /\ os_name \in {"posix", "nt"}
    /\ \E present \in SUBSET NotePaths :
       \E main \in TextsUpTo(MaxTokens) \cup {Absent} :
       \E others \in SUBSET (RefPaths \ {MainRef}) :
          rfs = [f \in RenPaths |->
                    IF f = MainRef THEN main
                    ELSE IF f \in others THEN OtherRefText
                    ELSE IF f \in present THEN <<Text(f.stem)>>
                    ELSE Absent]
    /\ rfs_before = rfs
    /\ r_call = [op |-> "none"]
    /\ rstat = [f \in RenPaths |-> IF RExists(rfs, f) THEN FreshStat ELSE NoStat]
    /\ rstat_before = rstat

\* No tree is set up for rename_and_update_links.
RenIdle ==
    /\ rfs = <<>>
    /\ rfs_before = <<>>
    /\ r_call = [op |-> "none"]
    /\ rstat = <<>>
    /\ rstat_before = <<>>

\* rename_and_update_links (lines 104-149), one call.
rename_and_update_links ==
    \E old_path \in CallPaths, new_path \in CallPaths,
       old_node_id \in {"01a"}, old_name \in {"Test"},
       new_node_id \in LinkIds, new_name \in {"New"},
       unwritable \in UnwritableSets :
        /\ r_call.op = "none"
        /\ LET plain == ~should_update_links(old_path.ext)
               affected_files == IF plain THEN {}
                                 ELSE find_links_to_file(rfs, old_node_id, old_name)
               raised == RenameRaises(rfs, os_name, old_path, new_path)
               renamed == RenameFile(rfs, old_path, new_path)
               updated_files == UpdatedFiles(renamed, affected_files, unwritable)
               renamed_stat == RenameStat(rstat, os_name, old_path, new_path, CallTime)
           IN /\ rstat' = IF raised THEN rstat
                          ELSE [f \in RenPaths |->
                                   IF f \in updated_files
                                   THEN StatAfterWrite(renamed_stat[f], os_name, CallTime)
                                   ELSE renamed_stat[f]]
              /\ rfs' = IF raised THEN rfs
                        ELSE [f \in RenPaths |->
                                 IF f \in updated_files
                                 THEN UpdatedText(renamed[f], old_node_id, old_name,
                                                  new_node_id, new_name)
                                 ELSE renamed[f]]
              /\ r_call' = [op |-> "rename", old_path |-> old_path, new_path |-> new_path,
                            old_id |-> old_node_id, old_name |-> old_name,
                            new_id |-> new_node_id, new_name |-> new_name,
                            scanned |-> ~plain, unwritable |-> unwritable,
                            ok |-> ~raised,
                            updated |-> IF raised THEN {} ELSE updated_files]
        /\ rfs_before' = rfs
        /\ rstat_before' = rstat
        /\ UNCHANGED notRenVars

RenNext == rename_and_update_links

(***************************************************************************)
(* get_hierarchy.py, file_graph.py, file_operations.py: the graph and      *)
(* move_files.  A path, a file name and a node key are sequences of short  *)
(* strings: "0","1"," ","A",".md" is the file name "01 A.md", "/" joins    *)
(* path components, <<>> is the empty string.                              *)
(***************************************************************************)

\* os.path.join(a, b) for a relative b: an empty a adds nothing.
PathJoin(a, b) == IF a = <<>> THEN b ELSE a \o <<"/">> \o b

\* The position of the last "/" of a path, 0 when it has none.
LastSlash(p) ==
    LET at == {i \in 1..Len(p) : p[i] = "/"} IN
    IF at = {} THEN 0 ELSE CHOOSE i \in at : \A j \in at : j <= i

\* os.path.dirname and os.path.basename.
PathDirname(p) == SubSeq(p, 1, LastSlash(p) - 1)
PathBasename(p) == SubSeq(p, LastSlash(p) + 1, Len(p))

\* os.path.normpath on the relative paths of the walk: "" is ".", and a
\* leading "./" is dropped.
NormPath(p) ==
    IF p = <<>> THEN <<".">>
    ELSE IF Len(p) >= 2 /\ p[1] = "." /\ p[2] = "/" THEN SubSeq(p, 3, Len(p))
    ELSE p

\* The file a path names under base_dir: "./x" and "x" are the same file.
OnDisk(p) ==
    IF Len(p) >= 2 /\ p[1] = "." /\ p[2] = "/" THEN SubSeq(p, 3, Len(p)) ELSE p

\* get_hierarchy.SUPPORTED_EXTENSIONS, and the extensions of the trees.
SUPPORTED_EXTENSIONS == {".md", ".txt", ".nb", ".pdf"}
Extensions == SUPPORTED_EXTENSIONS \cup {".TXT", ".jpg"}

\* os.path.splitext on an entry name: the extension is its last piece.
SplitExt(entry) ==
    IF entry # <<>> /\ entry[Len(entry)] \in Extensions
    THEN [name |-> SubSeq(entry, 1, Len(entry) - 1), ext |-> entry[Len(entry)]]
    ELSE [name |-> entry, ext |-> ""]

\* name.split(None, 1): the pieces before and after the first blank, or the
\* whole name as the only piece.
SplitBlank(name) ==
    LET at == {i \in 1..Len(name) : name[i] = " "} IN
    IF at = {} THEN <<name>>
    ELSE LET i == CHOOSE k \in at : \A j \in at : k <= j IN
         <<SubSeq(name, 1, i - 1), SubSeq(name, i + 1, Len(name))>>

\* No ID has a parent ID.
NoParentId(node_id) == <<>>

\* utils.get_parent_id.
get_parent_id(node_id) ==
    IF Len(node_id) <= 2 THEN <<>>
    ELSE IF Len(node_id) = 3 THEN SubSeq(node_id, 1, 2)
    ELSE IF ~IsDigit(node_id[Len(node_id)]) THEN SubSeq(node_id, 1, Len(node_id) - 1)
    ELSE SubSeq(node_id, 1, Len(node_id) - 2)

\* A Python dict that remembers insertion order: its keys in order, and the
\* value of each key.
EmptyDict == [order |-> <<>>, val |-> <<>>]
Keys(dict) == {dict.order[i] : i \in 1..Len(dict.order)}
Put(dict, k, v) ==
    IF k \in Keys(dict)
    THEN [dict EXCEPT !.val = [x \in Keys(dict) |-> IF x = k THEN v ELSE dict.val[x]]]
    ELSE [order |-> Append(dict.order, k),
          val |-> [x \in Keys(dict) \cup {k} |-> IF x = k THEN v ELSE dict.val[x]]]

\* next((k for k in dict if test), None): the first key in insertion order
\* that is in the set `matching`, or None.
None == <<"None">>
FirstKey(dict, matching) ==
    LET at == {i \in 1..Len(dict.order) : dict.order[i] \in matching} IN
    IF at = {} THEN None
    ELSE dict.order[CHOOSE i \in at : \A j \in at : i <= j]

\* edges[k].add(c) on a defaultdict(set).
AddEdge(edges, k, c) ==
    Put(edges, k, (IF k \in Keys(edges) THEN edges.val[k] ELSE {}) \cup {c})

\* get_hierarchy.GraphNode.__init__.
GraphNode(name, path, is_directory) ==
    [name |-> name, path |-> NormPath(path), is_directory |-> is_directory,
     id |-> <<>>, extension |-> "", is_surrogate |-> FALSE]

\* The "ID name" split of process_directory (lines 82-87 and 120-125).
WithParsedId(node, name) ==
    LET parts == SplitBlank(name) IN
    IF Len(parts) > 1 /\ is_valid_node_id(parts[1])
    THEN [node EXCEPT !.id = parts[1], !.name = parts[2]]
    ELSE [node EXCEPT !.name = name]

\* A directory tree as os.listdir and os.path.isdir show it.  An entry is
\* a file (with its creation time, the stable ID of the node) or a
\* directory (with its own entries, listed in sorted order).
FileEntry(entry, ctime) == [is_dir |-> FALSE, entry |-> entry, ctime |-> ctime, entries |-> <<>>]
DirEntry(entry, entries) == [is_dir |-> TRUE, entry |-> entry, ctime |-> "", entries |-> entries]

\* get_hierarchy.process_directory: the node of the directory itself, then
\* one node per supported file, sub-directories walked in place.
RECURSIVE process_directory(_, _, _)
RECURSIVE ProcessEntries(_, _, _, _)
process_directory(nodes, current_dir, relative_path) ==
    LET rel == NormPath(relative_path)
        node == WithParsedId(GraphNode(current_dir.entry, rel, TRUE), current_dir.entry)
        node_key == <<"dir_">> \o rel
    IN ProcessEntries(Put(nodes, node_key, node), current_dir.entries, 1, rel)

ProcessEntries(nodes, entries, i, relative_path) ==
    IF i > Len(entries) THEN nodes
    ELSE LET e == entries[i]
             entry_rel_path == PathJoin(relative_path, e.entry)
             parts == SplitExt(e.entry)
             dir_part == PathDirname(entry_rel_path)
             file_node ==
                 [WithParsedId([GraphNode(parts.name, entry_rel_path, FALSE)
                                   EXCEPT !.extension = parts.ext], parts.name)
                     EXCEPT !.path = IF dir_part = <<".">> THEN <<>> ELSE dir_part]
         IN IF e.is_dir
            THEN ProcessEntries(process_directory(nodes, e, entry_rel_path),
                                entries, i + 1, relative_path)
            ELSE IF Lower(parts.ext) \notin SUPPORTED_EXTENSIONS
            THEN ProcessEntries(nodes, entries, i + 1, relative_path)
            ELSE ProcessEntries(Put(nodes, <<e.ctime>>, file_node),
                                entries, i + 1, relative_path)

\* The key and the node of the surrogate of a parent ID (lines 164-166).
SurrogateKey(parent_id) == <<"surrogate_">> \o parent_id
Surrogate(parent_id) ==
    [GraphNode(<<"Surrogate", " ">> \o parent_id, <<>>, FALSE) EXCEPT !.id = parent_id]

\* Phase 2 of build_combined_graph: the loop over nodelist from position i
\* on.  A new surrogate joins nodes and the end of nodelist.
RECURSIVE EdgeLoop(_, _, _, _)
EdgeLoop(nodes, nodelist, i, edges) ==
    IF i > Len(nodelist) THEN [nodes |-> nodes, edges |-> edges]
    ELSE LET node_key == nodelist[i]
             node == nodes.val[node_key]
             parent_id == get_parent_id(node.id)
             id_parent == FirstKey(nodes, {k \in Keys(nodes) : nodes.val[k].id = parent_id})
             surrogate_key == SurrogateKey(parent_id)
             parent_path == IF node.is_directory THEN PathDirname(node.path) ELSE node.path
             dir_parent == FirstKey(nodes, {k \in Keys(nodes) :
                              nodes.val[k].is_directory /\ nodes.val[k].path = parent_path})
         IN IF node.id # <<>> /\ parent_id # <<>>
            THEN IF id_parent # None
                 THEN EdgeLoop(nodes, nodelist, i + 1, AddEdge(edges, id_parent, node_key))
                 ELSE EdgeLoop(Put(nodes, surrogate_key, Surrogate(parent_id)),
                               Append(nodelist, surrogate_key), i + 1,
                               AddEdge(edges, surrogate_key, node_key))
            ELSE IF parent_path \notin {<<>>, <<".">>}
                    /\ dir_parent # None /\ dir_parent # node_key
            THEN EdgeLoop(nodes, nodelist, i + 1, AddEdge(edges, dir_parent, node_key))
            ELSE EdgeLoop(nodes, nodelist, i + 1, edges)

\* get_hierarchy.build_combined_graph on the tree under `directory`.
build_combined_graph(directory) ==
    LET nodes == process_directory(EmptyDict, directory, <<>>) IN
    EdgeLoop(nodes, nodes.order, 1, EmptyDict)

\* FileGraph.build_from_directory: the attributes of the FileGraph object.
\* folgezettel_ids holds only the nodes that have an ID.
RECURSIVE IdsFrom(_, _, _)
IdsFrom(nodes, i, ids) ==
    IF i > Len(nodes.order) THEN ids
    ELSE LET k == nodes.order[i] IN
         IdsFrom(nodes, i + 1,
                 IF nodes.val[k].id # <<>> THEN Put(ids, k, nodes.val[k].id) ELSE ids)

build_from_directory(directory) ==
    LET combined_graph == build_combined_graph(directory)
        nodes == combined_graph.nodes
    IN [all_nodes |-> Keys(nodes),
        folgezettel_ids |-> IdsFrom(nodes, 1, EmptyDict),
        names |-> [k \in Keys(nodes) |-> nodes.val[k].name],
        paths |-> [k \in Keys(nodes) |-> nodes.val[k].path],
        extensions |-> [k \in Keys(nodes) |-> nodes.val[k].extension],
        surrogate_nodes |-> {k \in Keys(nodes) : k[1] = "surrogate_"},
        folder_nodes |-> {k \in Keys(nodes) : nodes.val[k].is_directory},
        edges |-> combined_graph.edges]

\* FileGraph.node_props: every field is read with dict.get and a default,
\* so a stable ID that is no node yields a record of empty fields.
node_props(g, stable_id) ==
    [id |-> IF stable_id \in Keys(g.folgezettel_ids)
            THEN g.folgezettel_ids.val[stable_id] ELSE <<>>,
     name |-> IF stable_id \in DOMAIN g.names THEN g.names[stable_id] ELSE <<>>,
     path |-> IF stable_id \in DOMAIN g.paths THEN g.paths[stable_id] ELSE <<>>,
     extension |-> IF stable_id \in DOMAIN g.extensions THEN g.extensions[stable_id] ELSE "",
     is_directory |-> stable_id \in g.folder_nodes]

\* f"{id} {name}{extension}", or f"{name}{extension}" without an ID.
FileName(id, name, extension) ==
    (IF id # <<>> THEN id \o <<" ">> ELSE <<>>) \o name
        \o (IF extension # "" THEN <<extension>> ELSE <<>>)

\* file_operations.get_file_path, relative to base_dir.
get_file_path(g, stable_id) ==
    LET node_data == node_props(g, stable_id) IN
    PathJoin(node_data.path, FileName(node_data.id, node_data.name, node_data.extension))

\* utils.get_stable_id_from_folgezettel: the first node, in the order of
\* the folgezettel_ids dict, that carries the ID.
get_stable_id_from_folgezettel(g, folgezettel_id) ==
    FirstKey(g.folgezettel_ids,
             {k \in Keys(g.folgezettel_ids) : g.folgezettel_ids.val[k] = folgezettel_id})

\* str.startswith.
StartsWith(s, prefix) == Len(s) >= Len(prefix) /\ SubSeq(s, 1, Len(prefix)) = prefix

\* 'abcdefghijklmnopqrstuvwxyz' and the f"{i:02d}" of range(1, 100).
Letters == <<"a", "b", "c", "d", "e", "f", "g", "h", "i", "j", "k", "l", "m",
             "n", "o", "p", "q", "r", "s", "t", "u", "v", "w", "x", "y", "z">>
Digits == <<"0", "1", "2", "3", "4", "5", "6", "7", "8", "9">>
TwoDigits(i) == <<Digits[(i \div 10) + 1], Digits[(i % 10) + 1]>>

\* utils.get_next_available_child_id (the second definition, lines 208-269,
\* which is the one the module exports).  It raises when no node carries
\* parent_id, when a child of that node has no entry in folgezettel_ids
\* (KeyError, line 239), and when the suffixes are used up.
get_next_available_child_id(parent_id, g) ==
    LET parent_stable_id == get_stable_id_from_folgezettel(g, parent_id)
        children == IF parent_stable_id \in Keys(g.edges)
                    THEN g.edges.val[parent_stable_id] ELSE {}
        child_ids == {g.folgezettel_ids.val[c] : c \in children}
        matching == {c \in child_ids : StartsWith(c, parent_id)}
        used_letters == {c[Len(parent_id) + 1] : c \in {x \in matching : Len(x) > Len(parent_id)}}
        used_numbers == {SubSeq(c, Len(parent_id) + 1, Len(parent_id) + 2) :
                            c \in {x \in matching : Len(x) >= Len(parent_id) + 2}}
        free_letters == {i \in 1..Len(Letters) : Letters[i] \notin used_letters}
        free_numbers == {i \in 1..99 : TwoDigits(i) \notin used_numbers}
    IN IF parent_stable_id = None THEN [raises |-> TRUE, id |-> <<>>]
       ELSE IF \E c \in children : c \notin Keys(g.folgezettel_ids)
       THEN [raises |-> TRUE, id |-> <<>>]
       ELSE IF IsDigit(parent_id[Len(parent_id)])
       THEN IF free_letters = {} THEN [raises |-> TRUE, id |-> <<>>]
            ELSE [raises |-> FALSE,
                  id |-> Append(parent_id,
                                Letters[CHOOSE i \in free_letters : \A j \in free_letters : i <= j])]
       ELSE IF free_numbers = {} THEN [raises |-> TRUE, id |-> <<>>]
            ELSE [raises |-> FALSE,
                  id |-> parent_id \o
                         TwoDigits(CHOOSE i \in free_numbers : \A j \in free_numbers : i <= j)]

\* shutil.move(old_path, new_path) of a file: it raises when the source is
\* missing, and replaces a file already at the destination.
ShutilMoveRaises(files, old_path) == OnDisk(old_path) \notin files
ShutilMove(files, old_path, new_path) ==
    (files \ {OnDisk(old_path)}) \cup {OnDisk(new_path)}

\* The os.rename of zettelrename.rename_and_update_links on the file set:
\* the call returns (False, []) exactly when os.rename raises, which it does
\* for a missing source and, on Windows, for a destination that exists.
\* The rewriting of links changes the text of files, not their paths.
RenameOnDiskFails(files, os, old_path, new_path) ==
    \/ OnDisk(old_path) \notin files
    \/ os = "nt" /\ OnDisk(new_path) \in files /\ OnDisk(new_path) # OnDisk(old_path)
RenameOnDisk(files, old_path, new_path) ==
    (files \ {OnDisk(old_path)}) \cup {OnDisk(new_path)}

\* A move that leaves the source in the child set of its old parent.
KeepUnderOldParent(edges, source_stable_id) == edges

\* Lines 133-136 of move_files: the source leaves the child set of the first
\* parent that lists it.
RemoveFromOldParent(edges, source_stable_id) ==
    LET old_parent == FirstKey(edges, {pid \in Keys(edges) : source_stable_id \in edges.val[pid]})
    IN IF old_parent # None
       THEN Put(edges, old_parent, edges.val[old_parent] \ {source_stable_id})
       ELSE edges

\* The body of the for loop of move_files for one source; target_node is
\* the node_props of the target, and its path the target_path, both read
\* once before the loop.  `raised` tells
\* that an exception left the loop; graph and disk are what the steps
\* before the exception made of them.
MoveOne(g, files, os, source_stable_id, target_stable_id, target_node) ==
    LET target_path == target_node.path
        source_node == node_props(g, source_stable_id)
        old_path == get_file_path(g, source_stable_id)
        filename == PathBasename(old_path)
        new_path == PathJoin(target_path, filename)
        moved == IF old_path # new_path THEN ShutilMove(files, old_path, new_path) ELSE files
        alloc == get_next_available_child_id(g.folgezettel_ids.val[target_stable_id], g)
        new_filename == FileName(alloc.id, source_node.name, source_node.extension)
        final_path == PathJoin(PathDirname(new_path), new_filename)
        renamed == RenameOnDisk(moved, new_path, final_path)
        with_id == [g EXCEPT !.folgezettel_ids = Put(@, source_stable_id, alloc.id),
                             !.paths[source_stable_id] = target_path]
        without_id == [g EXCEPT !.paths[source_stable_id] = target_path]
        Attach(h) == [h EXCEPT !.edges = AddEdge(RemoveFromOldParent(@, source_stable_id),
                                                 target_stable_id, source_stable_id)]
    IN IF source_stable_id \notin g.all_nodes
       THEN [raised |-> TRUE, graph |-> g, disk |-> files]
       ELSE IF old_path # new_path /\ ShutilMoveRaises(files, old_path)
       THEN [raised |-> TRUE, graph |-> g, disk |-> files]
       ELSE IF target_node.id = <<>>
       THEN [raised |-> FALSE, graph |-> Attach(without_id), disk |-> moved]
       ELSE IF alloc.raises
       THEN [raised |-> TRUE, graph |-> g, disk |-> moved]
       ELSE IF RenameOnDiskFails(moved, os, new_path, final_path)
       THEN [raised |-> TRUE, graph |-> g, disk |-> moved]
       ELSE [raised |-> FALSE, graph |-> Attach(with_id), disk |-> renamed]

\* The for loop of move_files from source i on.  The FileGraph object is
\* changed in place, so a failed call keeps what earlier sources changed.
RECURSIVE MoveSourcesFrom(_, _, _, _, _, _, _)
MoveSourcesFrom(g, files, os, source_stable_ids, i, target_stable_id, target_node) ==
    IF i > Len(source_stable_ids)
    THEN [ok |-> TRUE, graph |-> g, disk |-> files, done |-> i - 1]
    ELSE LET step == MoveOne(g, files, os, source_stable_ids[i], target_stable_id,
                             target_node)
         IN IF step.raised
            THEN [ok |-> FALSE, graph |-> step.graph, disk |-> step.disk, done |-> i - 1]
            ELSE MoveSourcesFrom(step.graph, step.disk, os, source_stable_ids, i + 1,
                                 target_stable_id, target_node)

\* A move_files that puts graph and disk back as they were when a source
\* fails.
RevertedOnFailure(result, g, files) ==
    IF result.ok THEN result ELSE [result EXCEPT !.graph = g, !.disk = files]

\* Lines 144-146 of move_files: the except clause returns the graph object
\* as the loop left it, and nothing is put back on disk.
ReturnedOnFailure(result, g, files) == result

\* A move_files that does not look the target up and goes on with the
\* defaulted fields of node_props.
UncheckedTarget(g, target_stable_id) == FALSE

\* Lines 67-68 of move_files.
TargetNotFound(g, target_stable_id) == target_stable_id \notin g.all_nodes

\* file_operations.move_files: the success flag, the graph, the disk, and
\* the number of sources that were dealt with in full.
MoveFiles(g, files, os, source_stable_ids, target_stable_id) ==
    IF TargetNotFound(g, target_stable_id)
    THEN [ok |-> FALSE, graph |-> g, disk |-> files, done |-> 0]
    ELSE ReturnedOnFailure(MoveSourcesFrom(g, files, os, source_stable_ids, 1,
                                           target_stable_id,
                                           node_props(g, target_stable_id)),
                           g, files)

\* Most calls of move_files on one graph, and most sources of one call.
MaxMoves == 2
MaxMoveSources == 2

\* File and directory names of the trees.
Named(id, name, extension) == FileName(id, <<name>>, extension)

\* A folder that carries an ID and holds a child note, a root note and a
\* plain folder.
Tree1 ==
    DirEntry(<<"kasten">>,
             <<DirEntry(Named(<<"0", "1">>, "A", ""),
                        <<FileEntry(Named(<<"0", "1", "a">>, "B", ".md"), "1001")>>),
               FileEntry(Named(<<"0", "2">>, "C", ".md"), "1002"),
               DirEntry(<<"D">>, <<>>)>>)

\* A folder that carries an ID and holds a plain sub-folder with a picture
\* (which gets no node), and two root notes.
Tree2 ==
    DirEntry(<<"kasten">>,
             <<DirEntry(Named(<<"0", "1">>, "T", ""),
                        <<DirEntry(<<"img">>,
                                   <<FileEntry(Named(<<>>, "pic", ".jpg"), "1001")>>)>>),
               FileEntry(Named(<<"0", "2">>, "X", ".md"), "1002"),
               FileEntry(Named(<<"0", "3">>, "Y", ".TXT"), "1003")>>)

\* A note two levels below parents that have no file, and a root note.
Tree3 ==
    DirEntry(<<"kasten">>,
             <<FileEntry(Named(<<"0", "1", "a", "0", "1">>, "E", ".md"), "1001"),
               FileEntry(Named(<<"0", "2">>, "C", ".md"), "1002")>>)

\* A note, its child note and an empty folder that carries an ID.
Tree4 ==
    DirEntry(<<"kasten">>,
             <<FileEntry(Named(<<"0", "1">>, "A", ".md"), "1001"),
               FileEntry(Named(<<"0", "1", "a">>, "B", ".md"), "1002"),
               DirEntry(Named(<<"0", "2">>, "C", ""), <<>>)>>)

Trees == {Tree1, Tree2, Tree3, Tree4}

\* The paths of the files of a tree, relative to its root.
RECURSIVE FilesUnder(_, _, _)
FilesUnder(entries, i, relative_path) ==
    IF i > Len(entries) THEN {}
    ELSE LET e == entries[i]
             p == PathJoin(relative_path, e.entry)
         IN (IF e.is_dir THEN FilesUnder(e.entries, 1, p) ELSE {p})
            \cup FilesUnder(entries, i + 1, relative_path)

\* The nodes move_files is handed as sources: the file nodes of the graph.
FileNodes(g) == g.all_nodes \ (g.folder_nodes \cup g.surrogate_nodes)

\* Lists without repetition of 1..n elements of a set.
SourceLists(S, n) ==
    {l \in UNION {[1..m -> S] : m \in 1..n} :
        \A a, b \in 1..Len(l) : a # b => l[a] # l[b]}

\* A FileGraph built over one of the trees.
MoveInit ==
    /\ \E tree \in Trees :
          /\ graph = build_from_directory(tree)
          /\ disk = FilesUnder(tree.entries, 1, <<>>)
          /\ dir_tree = tree
    /\ mv_pc = <<>>
    /\ mv_loc = <<>>
    /\ m_call = [op |-> "none"]
    /\ m_count = 0

\* No graph is built.
MoveIdle ==
    /\ graph = <<>>
    /\ disk = {}
    /\ m_call = [op |-> "none"]
    /\ m_count = 0
    /\ dir_tree = <<>>
    /\ mv_pc = <<>>
    /\ mv_loc = <<>>

\* The effect of move_files(base_dir, source_stable_ids, target_stable_id,
\* graph) on the state.
MoveCall(source_stable_ids, target_stable_id) ==
    LET result == MoveFiles(graph, disk, os_name, source_stable_ids, target_stable_id)
    IN /\ graph' = result.graph
       /\ disk' = result.disk
       /\ m_call' = [op |-> "move", sources |-> source_stable_ids,
                     target |-> target_stable_id, ok |-> result.ok,
                     done |-> result.done,
                     graph_before |-> graph, disk_before |-> disk]
       /\ m_count' = m_count + 1
       /\ UNCHANGED <<dir_tree, mv_pc, mv_loc, os_name, notMoveVars>>

\* One call of move_files with nodes of the graph.
move_files ==
    /\ m_count < MaxMoves
    /\ \E source_stable_ids \in SourceLists(FileNodes(graph), MaxMoveSources) :
       \E target_stable_id \in graph.all_nodes :
          MoveCall(source_stable_ids, target_stable_id)

MoveNext == move_files

\* Most calls that may name a stable ID that is no node.
MaxStrayMoves == 1

\* A stable ID that no node of the graph has.
MissingKey == <<"9999">>

\* One call of move_files whose sources and target are nodes of the graph
\* or the stable ID that is no node.
move_files_any_id ==
    /\ m_count < MaxStrayMoves
    /\ \E source_stable_ids \in SourceLists(FileNodes(graph) \cup {MissingKey}, MaxMoveSources) :
       \E target_stable_id \in graph.all_nodes \cup {MissingKey} :
          MoveCall(source_stable_ids, target_stable_id)

\* `if not node_data` (file_operations.py lines 22-23): a dict is falsy
\* only when it has no key.
NotNodeData(node_data) == DOMAIN node_data = {}

\* One call of get_file_path with a node of the graph or the stable ID that
\* is no node: it raises ValueError or returns a path.
get_file_path_call ==
    /\ m_count < MaxStrayMoves
    /\ \E stable_id \in graph.all_nodes \cup {MissingKey} :
          m_call' = [op |-> "get_file_path", stable_id |-> stable_id,
                     raises |-> NotNodeData(node_props(graph, stable_id)),
                     path |-> get_file_path(graph, stable_id)]
    /\ m_count' = m_count + 1
    /\ UNCHANGED <<graph, disk, dir_tree, mv_pc, mv_loc, os_name, notMoveVars>>

StrayNext == move_files_any_id \/ get_file_path_call

(***************************************************************************)
(* file_manager.py, file_operations.py: move_files called from several     *)
(* threads on the FileGraph they share.  FileManager.move_files hands the  *)
(* call on to file_operations.move_files (lines 84-89) without taking a    *)
(* lock of its AtomicFileOps, so the statements of the calls interleave.   *)
(* Each call has one source; the graph is the one update_graph has just    *)
(* built when the calls start.                                             *)
(***************************************************************************)

MoveThreads == {"t1", "t2"}

\* The locals of a thread that has not called move_files.
NoLocals == [source |-> None, target |-> None]

\* The trees the threads work on.
RaceTrees == {Tree1, Tree4}

\* The thread is between the first and the last statement of move_files.
InMoveFiles(t) == mv_pc[t] \in {"move", "allocate", "rename", "path", "edges"}

RaceInit ==
    /\ \E tree \in RaceTrees :
          /\ graph = build_from_directory(tree)
          /\ disk = FilesUnder(tree.entries, 1, <<>>)
          /\ dir_tree = tree
    /\ m_call = [op |-> "none"]
    /\ m_count = 0
    /\ mv_pc = [t \in MoveThreads |-> "idle"]
    /\ mv_loc = [t \in MoveThreads |-> NoLocals]

\* Lines 66-73 of move_files: the target is looked up and its node data and
\* path are read.  `overlap` records whether another call was under way.
mv_call(t) ==
    /\ mv_pc[t] = "idle"
    /\ \E source_stable_id \in FileNodes(graph), target_stable_id \in graph.all_nodes :
          mv_loc' = [u \in MoveThreads |->
                        IF u = t
                        THEN [source |-> source_stable_id, target |-> target_stable_id,
                              target_node |-> node_props(graph, target_stable_id),
                              target_path |-> graph.paths[target_stable_id],
                              source_node |-> node_props(graph, source_stable_id),
                              new_path |-> <<>>, new_id |-> <<>>,
                              overlap |-> \E v \in MoveThreads : InMoveFiles(v)]
                        ELSE IF InMoveFiles(u) THEN [mv_loc[u] EXCEPT !.overlap = TRUE]
                        ELSE mv_loc[u]]
    /\ mv_pc' = [mv_pc EXCEPT ![t] = "move"]
    /\ UNCHANGED <<graph, disk, m_call, m_count, dir_tree, os_name, notMoveVars>>

\* Lines 76-91: the paths are computed from the graph and the file is moved
\* into the target directory.
mv_move(t) ==
    /\ mv_pc[t] = "move"
    /\ LET l == mv_loc[t]
           old_path == get_file_path(graph, l.source)
           new_path == PathJoin(l.target_path, PathBasename(old_path))
       IN IF old_path # new_path /\ ShutilMoveRaises(disk, old_path)
          THEN /\ mv_pc' = [mv_pc EXCEPT ![t] = "failed"]
               /\ UNCHANGED <<disk, mv_loc>>
          ELSE /\ disk' = IF old_path # new_path
                          THEN ShutilMove(disk, old_path, new_path) ELSE disk
               /\ mv_loc' = [mv_loc EXCEPT ![t].new_path = new_path,
                                           ![t].source_node = node_props(graph, l.source)]
               /\ mv_pc' = [mv_pc EXCEPT ![t] = IF l.target_node.id # <<>>
                                                 THEN "allocate" ELSE "path"]
    /\ UNCHANGED <<graph, m_call, m_count, dir_tree, os_name, notMoveVars>>

\* Lines 94-95: the next child ID of the target is read off the graph.
mv_allocate(t) ==
    /\ mv_pc[t] = "allocate"
    /\ LET l == mv_loc[t]
           alloc == get_next_available_child_id(graph.folgezettel_ids.val[l.target], graph)
       IN IF alloc.raises
          THEN /\ mv_pc' = [mv_pc EXCEPT ![t] = "failed"]
               /\ UNCHANGED mv_loc
          ELSE /\ mv_loc' = [mv_loc EXCEPT ![t].new_id = alloc.id]
               /\ mv_pc' = [mv_pc EXCEPT ![t] = "rename"]
    /\ UNCHANGED <<graph, disk, m_call, m_count, dir_tree, os_name, notMoveVars>>

\* Lines 98-125: the file is renamed to carry the new ID, and the ID and the
\* path of the source are written into the graph.
mv_rename(t) ==
    /\ mv_pc[t] = "rename"
    /\ LET l == mv_loc[t]
           new_filename == FileName(l.new_id, l.source_node.name, l.source_node.extension)
           final_path == PathJoin(PathDirname(l.new_path), new_filename)
       IN IF RenameOnDiskFails(disk, os_name, l.new_path, final_path)
          THEN /\ mv_pc' = [mv_pc EXCEPT ![t] = "failed"]
               /\ UNCHANGED <<graph, disk>>
          ELSE /\ disk' = RenameOnDisk(disk, l.new_path, final_path)
               /\ graph' = [graph EXCEPT !.folgezettel_ids = Put(@, l.source, l.new_id),
                                         !.paths[l.source] = l.target_path]
               /\ mv_pc' = [mv_pc EXCEPT ![t] = "edges"]
    /\ UNCHANGED <<mv_loc, m_call, m_count, dir_tree, os_name, notMoveVars>>

\* Lines 126-129: a target without ID, only the path of the source is
\* written into the graph.
mv_path(t) ==
    /\ mv_pc[t] = "path"
    /\ graph' = [graph EXCEPT !.paths[mv_loc[t].source] = mv_loc[t].target_path]
    /\ mv_pc' = [mv_pc EXCEPT ![t] = "edges"]
    /\ UNCHANGED <<disk, mv_loc, m_call, m_count, dir_tree, os_name, notMoveVars>>

\* Lines 131-142: the source leaves its old parent and joins the target.
mv_edges(t) ==
    /\ mv_pc[t] = "edges"
    /\ graph' = [graph EXCEPT !.edges =
                    AddEdge(RemoveFromOldParent(@, mv_loc[t].source),
                            mv_loc[t].target, mv_loc[t].source)]
    /\ mv_pc' = [mv_pc EXCEPT ![t] = "done"]
    /\ UNCHANGED <<disk, mv_loc, m_call, m_count, dir_tree, os_name, notMoveVars>>

RaceNext ==
    \E t \in MoveThreads :
        \/ mv_call(t)
        \/ mv_move(t)
        \/ mv_allocate(t)
        \/ mv_rename(t)
        \/ mv_path(t)
        \/ mv_edges(t)

(***************************************************************************)
(* get_hierarchy.py, file_graph.py: the graph built more than once over    *)
(* one tree.  os.listdir hands out the entries of a directory in an        *)
(* arbitrary order, which may differ from one call to the next.            *)
(***************************************************************************)

\* Most builds over one tree.
MaxBuilds == 2

\* The pieces of the entry names in the order of their first code points.
CodePointOrder ==
    <<" ", ".TXT", ".jpg", ".md", "0", "1", "2", "3", "A", "B", "C", "D", "E",
      "T", "X", "Y", "a", "img", "pic">>
Rank(c) == CHOOSE i \in 1..Len(CodePointOrder) : CodePointOrder[i] = c

\* a < b on str.
NameBefore(a, b) ==
    LET n == IF Len(a) < Len(b) THEN Len(a) ELSE Len(b)
        diff == {i \in 1..n : a[i] # b[i]}
    IN IF diff = {} THEN Len(a) < Len(b)
       ELSE LET i == CHOOSE k \in diff : \A j \in diff : k <= j
            IN Rank(a[i]) < Rank(b[i])

\* The entries are processed in the order os.listdir gave them.
AsListed(entries) == entries

RECURSIVE InsertEntry(_, _)
InsertEntry(sorted, e) ==
    IF sorted = <<>> THEN <<e>>
    ELSE IF NameBefore(e.entry, Head(sorted).entry) THEN <<e>> \o sorted
    ELSE <<Head(sorted)>> \o InsertEntry(Tail(sorted), e)

RECURSIVE SortLoop(_, _, _)
SortLoop(entries, i, sorted) ==
    IF i > Len(entries) THEN sorted
    ELSE SortLoop(entries, i + 1, InsertEntry(sorted, entries[i]))

\* sorted(entries) at line 99 of get_hierarchy.py.
sorted_entries(entries) == SortLoop(entries, 1, <<>>)

\* The tree as process_directory walks it: in every directory the entries
\* in the order sorted() puts them.
RECURSIVE WalkOrder(_)
WalkOrder(dir) ==
    LET s == sorted_entries(dir.entries) IN
    [dir EXCEPT !.entries = [i \in 1..Len(s) |->
                                IF s[i].is_dir THEN WalkOrder(s[i]) ELSE s[i]]]

\* The orders in which os.listdir may list one tree: every order of the
\* entries of every directory.
RECURSIVE Listings(_)
Listings(dir) ==
    LET n == Len(dir.entries)
        Sub(i) == IF dir.entries[i].is_dir THEN Listings(dir.entries[i])
                  ELSE {dir.entries[i]}
        subs == {f \in [1..n -> UNION {Sub(i) : i \in 1..n}] : \A i \in 1..n : f[i] \in Sub(i)}
        perms == {q \in [1..n -> 1..n] : \A i, j \in 1..n : i # j => q[i] # q[j]}
    IN {[dir EXCEPT !.entries = [i \in 1..n |-> f[q[i]]]] : f \in subs, q \in perms}

\* Two notes that carry the same ID, a child note of that ID, and a note
\* whose parent ID no file carries.
Tree5 ==
    DirEntry(<<"kasten">>,
             <<FileEntry(Named(<<"0", "1">>, "A", ".md"), "1001"),
               FileEntry(Named(<<"0", "1">>, "B", ".md"), "1002"),
               FileEntry(Named(<<"0", "1", "a">>, "C", ".md"), "1003"),
               FileEntry(Named(<<"0", "2", "a">>, "D", ".md"), "1004")>>)

\* A root note and a plain folder that holds the note's child, a note with
\* a root ID and a note without ID.
Tree6 ==
    DirEntry(<<"kasten">>,
             <<FileEntry(Named(<<"0", "1">>, "A", ".md"), "1001"),
               DirEntry(<<"D">>,
                        <<FileEntry(Named(<<"0", "1", "a">>, "B", ".md"), "1002"),
                          FileEntry(Named(<<"0", "2">>, "C", ".md"), "1003"),
                          FileEntry(Named(<<>>, "E", ".md"), "1004")>>)>>)

\* Two notes whose earliest timestamp is the same (written in the same
\* clock tick, or copied with their modification time kept).
Tree7 ==
    DirEntry(<<"kasten">>,
             <<FileEntry(Named(<<"0", "1">>, "A", ".md"), "1001"),
               FileEntry(Named(<<"0", "2">>, "B", ".md"), "1001")>>)

BuildTrees == Trees \cup {Tree5, Tree6, Tree7}

\* FileGraph.__init__.
NewFileGraph ==
    [all_nodes |-> {}, folgezettel_ids |-> EmptyDict, names |-> <<>>, paths |-> <<>>,
     extensions |-> <<>>, surrogate_nodes |-> {}, folder_nodes |-> {},
     edges |-> EmptyDict]

\* A new FileGraph object and one of the trees on disk.
BuildInit ==
    /\ dir_tree \in BuildTrees
    /\ graph = NewFileGraph
    /\ disk = FilesUnder(dir_tree.entries, 1, <<>>)
    /\ m_call = [op |-> "none", listing |-> dir_tree]
    /\ m_count = 0
    /\ mv_pc = <<>>
    /\ mv_loc = <<>>

\* FileGraph.build_from_directory(directory), one call: the object is
\* reset and filled from what build_combined_graph returns.  m_call.nodes
\* is the "nodes" dict of that result.
build_graph ==
    /\ m_count < MaxBuilds
    /\ \E listing \in Listings(dir_tree) :
          /\ graph' = build_from_directory(WalkOrder(listing))
          /\ m_call' = [op |-> "build", listing |-> listing,
                        listing_before |-> m_call.listing, graph_before |-> graph,
                        nodes |-> build_combined_graph(WalkOrder(listing)).nodes]
    /\ m_count' = m_count + 1
    /\ UNCHANGED <<disk, dir_tree, mv_pc, mv_loc, os_name, notMoveVars>>

BuildNext == build_graph

(***************************************************************************)
(* file_manager.py: FileManager.create_file on a FileManager whose         *)
(* GraphManager has built the graph of base_dir.  The files are created in *)
(* base_dir itself.                                                        *)
(***************************************************************************)

\* Most create_file calls in a run.
MaxCreates == 3

\* The paths create_file is called with, relative to base_dir.
CreatePaths == {Named(<<"0", "3">>, "E", ".md"), Named(<<>>, "X", ".md")}

\* The timestamp of the file the n-th call writes.
NewTimes == <<"2001", "2002", "2003", "2004">>

\* The tree after open(path, 'w') and write: a file that was there keeps
\* its place.
AddFile(tree, entry, time) ==
    IF \E i \in 1..Len(tree.entries) : tree.entries[i].entry = entry
    THEN tree
    ELSE [tree EXCEPT !.entries = Append(@, FileEntry(entry, time))]

\* The tree after the rollback of atomic_create (lines 159-161):
\* os.remove(path) when a file is there.
RemoveFile(tree, entry) ==
    [tree EXCEPT !.entries = SelectSeq(@, LAMBDA e : e.entry # entry)]

\* What atomic_create returns (lines 154, 164): a bool.
BoolResult(b) == [type |-> "bool", value |-> b]

\* "success, updated_files = value" (line 156) raises TypeError unless the
\* value is a tuple.
UnpackRaises(value) == value.type # "tuple"

\* FileManager.create_file(file_path, content), lines 143-169.
\* open_raises: os.makedirs or open(path, 'w') raises in atomic_create.
create_file ==
    /\ m_count < MaxCreates
    /\ \E file_path \in CreatePaths \cup {<<>>}, open_raises \in BOOLEAN :
          IF file_path = <<>>
          THEN /\ m_call' = [op |-> "create_file", file_path |-> file_path,
                            raises |-> "ValueError", success |-> FALSE,
                            writable |-> FALSE]
               /\ UNCHANGED <<graph, disk, dir_tree>>
          ELSE LET created == ~open_raises
                   tree == IF created
                           THEN AddFile(dir_tree, file_path, NewTimes[m_count + 1])
                           ELSE RemoveFile(dir_tree, file_path)
                   returned == BoolResult(created)
                   raised == UnpackRaises(returned)
                   success == ~raised /\ returned.value
               IN /\ dir_tree' = tree
                  /\ disk' = FilesUnder(tree.entries, 1, <<>>)
                  /\ graph' = IF success THEN build_from_directory(WalkOrder(tree))
                              ELSE graph
                  /\ m_call' = [op |-> "create_file", file_path |-> file_path,
                                raises |-> "none", success |-> success,
                                writable |-> ~open_raises]
    /\ m_count' = m_count + 1
    /\ UNCHANGED <<mv_pc, mv_loc, os_name, notMoveVars>>

CreateNext == create_file

(***************************************************************************)
(* utils.py: get_parent_id, get_all_parent_ids and                         *)
(* get_next_available_child_id called on an ID that is_valid_node_id       *)
(* accepts (the IDs the graph holds are the ones WithParsedId let in).     *)
(***************************************************************************)

\* The list is cut after the immediate parent.
ImmediateParentOnly(node_id) ==
    IF get_parent_id(node_id) = <<>> THEN <<>> ELSE <<get_parent_id(node_id)>>

\* The while loop of utils.get_all_parent_ids from current_id on.
RECURSIVE ParentsLoop(_)
ParentsLoop(current_id) ==
    LET parent_id == get_parent_id(current_id) IN
    IF parent_id = <<>> THEN <<>>
    ELSE <<parent_id>> \o ParentsLoop(parent_id)

\* utils.get_all_parent_ids.
get_all_parent_ids(node_id) == ParentsLoop(node_id)

\* Most children the parent has in the enumerated graphs.
MaxChildren == 2

\* The stable IDs of the parent node and of its i-th child.
ParentKey == <<"p">>
ChildKey(i) == <<"c", Digits[i + 1]>>

\* The ID of the i-th direct child of parent_id: a letter after a digit,
\* two digits otherwise.
ChildId(parent_id, i) ==
    IF IsDigit(parent_id[Len(parent_id)])
    THEN Append(parent_id, Letters[i])
    ELSE parent_id \o TwoDigits(i)

\* The fields of a FileGraph that get_next_available_child_id reads, for a
\* graph in which one node carries parent_id and has the children numbered
\* in `used`, from child i on.
RECURSIVE WithChildren(_, _, _, _)
WithChildren(g, parent_id, used, i) ==
    IF i > MaxChildren THEN g
    ELSE IF i \notin used THEN WithChildren(g, parent_id, used, i + 1)
    ELSE WithChildren([folgezettel_ids |->
                           Put(g.folgezettel_ids, ChildKey(i), ChildId(parent_id, i)),
                       edges |-> AddEdge(g.edges, ParentKey, ChildKey(i))],
                      parent_id, used, i + 1)

ParentWithChildren(parent_id, used) ==
    WithChildren([folgezettel_ids |-> Put(EmptyDict, ParentKey, parent_id),
                  edges |-> EmptyDict],
                 parent_id, used, 1)

\* The IDs the children of the parent node carry in g.
ChildIdsIn(g) ==
    IF ParentKey \in Keys(g.edges)
    THEN {g.folgezettel_ids.val[c] : c \in g.edges.val[ParentKey]}
    ELSE {}

\* An accepted ID, and a graph in which a node carries it.
IdOpsInit ==
    /\ id_in \in {s \in StringsUpTo(MaxIdLen) : is_valid_node_id(s)}
    /\ id_pc = "done"
    /\ id_valid = TRUE
    /\ id_graph \in {ParentWithChildren(id_in, used) : used \in SUBSET (1..MaxChildren)}
    /\ id_call = [op |-> "none"]

\* One call get_parent_id(id_in).
CallGetParentId ==
    /\ id_call.op = "none"
    /\ id_call' = [op |-> "get_parent_id", result |-> get_parent_id(id_in)]
    /\ UNCHANGED <<id_in, id_pc, id_valid, id_graph, notIdVars>>

\* One call get_all_parent_ids(id_in).
CallGetAllParentIds ==
    /\ id_call.op = "none"
    /\ id_call' = [op |-> "get_all_parent_ids", result |-> get_all_parent_ids(id_in)]
    /\ UNCHANGED <<id_in, id_pc, id_valid, id_graph, notIdVars>>

\* One call get_next_available_child_id(id_in, id_graph).
CallGetNextAvailableChildId ==
    /\ id_call.op = "none"
    /\ id_call' = [op |-> "get_next_available_child_id",
                   result |-> get_next_available_child_id(id_in, id_graph)]
    /\ UNCHANGED <<id_in, id_pc, id_valid, id_graph, notIdVars>>

IdOpsNext ==
    \/ CallGetParentId
    \/ CallGetAllParentIds
    \/ CallGetNextAvailableChildId

(***************************************************************************)
(* Specifications                                                          *)
(***************************************************************************)

\* Calls of the ID functions on enumerated strings.
OsIdle == os_name = "posix"
OsAny == os_name \in {"posix", "nt"}

InitId == IdInit /\ OsIdle /\ LockIdle /\ AfsIdle /\ RenIdle /\ MoveIdle
SpecId == InitId /\ [][IdNext]_vars

\* Calls of the ID functions on accepted IDs.
InitIdOps == IdOpsInit /\ OsIdle /\ LockIdle /\ AfsIdle /\ RenIdle /\ MoveIdle
SpecIdOps == InitIdOps /\ [][IdOpsNext]_vars

\* One atomic operation applied to an enumerated tree.
InitAtomicFs == AfsTreeInit /\ OsAny /\ IdIdle /\ LockIdle /\ RenIdle /\ MoveIdle
SpecAtomicFs == InitAtomicFs /\ [][AfsNext]_vars

\* One rename_and_update_links call applied to an enumerated tree.
InitRename == RenInit /\ IdIdle /\ LockIdle /\ AfsIdle /\ MoveIdle
SpecRename == InitRename /\ [][RenNext]_vars

\* move_files calls on a FileGraph built over one of the trees.
InitMove == MoveInit /\ OsAny /\ IdIdle /\ LockIdle /\ AfsIdle /\ RenIdle
SpecMove == InitMove /\ [][MoveNext]_vars

\* move_files and get_file_path calls that may name a stable ID that is no
\* node.
InitStray == MoveInit /\ OsAny /\ IdIdle /\ LockIdle /\ AfsIdle /\ RenIdle
SpecStray == InitStray /\ [][StrayNext]_vars

\* move_files calls of several threads on one FileGraph.
InitRace == RaceInit /\ OsAny /\ IdIdle /\ LockIdle /\ AfsIdle /\ RenIdle
SpecRace == InitRace /\ [][RaceNext]_vars

\* Builds of the graph over one unmodified tree.
InitBuild == BuildInit /\ OsIdle /\ IdIdle /\ LockIdle /\ AfsIdle /\ RenIdle
SpecBuild == InitBuild /\ [][BuildNext]_vars

\* FileManager.create_file calls on a built graph.
InitCreate == MoveInit /\ OsIdle /\ IdIdle /\ LockIdle /\ AfsIdle /\ RenIdle
SpecCreate == InitCreate /\ [][CreateNext]_vars

\* Threads running atomic operations on one AtomicFileOps object.
InitLocks == LockInit /\ OsIdle /\ IdIdle /\ AfsIdle /\ RenIdle /\ MoveIdle
SpecLocks == InitLocks /\ [][LockNext]_vars

\* Threads running atomic_create on one AtomicFileOps object.
InitLockTable == LockInit /\ OsIdle /\ IdIdle /\ AfsIdle /\ RenIdle /\ MoveIdle
SpecLockTable == InitLockTable /\ [][LockTableNext]_vars

(***************************************************************************)
(* C1: the grammar of the claim, read so that it agrees with the listed    *)
(* rejections ("01aa", "03e@07"): two digits, then hops of one non-digit   *)
(* and two digits; the last hop may lack its digits, and may then carry    *)
(* one special character as the final character of the string.             *)
(***************************************************************************)
RECURSIVE MatchesHops(_, _)
MatchesHops(s, pos) ==
    LET rest == Len(s) - pos IN
    IF rest = 0 THEN TRUE
    ELSE IF IsDigit(At(s, pos)) THEN FALSE
    ELSE IF rest = 1 THEN TRUE
    ELSE IF rest = 2 THEN At(s, pos + 1) \in SpecialChars
    ELSE /\ IsDigit(At(s, pos + 1))
         /\ IsDigit(At(s, pos + 2))
         /\ MatchesHops(s, pos + 3)

MatchesIdGrammar(s) ==
    /\ Len(s) >= 2
    /\ IsDigit(s[1])
    /\ IsDigit(s[2])
    /\ MatchesHops(s, 2)

\* C1: is_valid_node_id(s) is true exactly when s matches the ID grammar;
\* in particular a hop followed by one digit and one non-digit is rejected.
C1_ValidIffGrammar ==
    id_pc = "done" => (id_valid <=> MatchesIdGrammar(id_in))

\* C1, the part the code satisfies: every string of the grammar is accepted.
C1_GrammarAccepted ==
    id_pc = "done" /\ MatchesIdGrammar(id_in) => id_valid


(***************************************************************************)
(* Claims about the per-path locks                                         *)
(***************************************************************************)

\* Thread t has entered and not yet left the section guarded by the lock
\* of path p.
InsideSection(t, p) ==
    \E i \in 1..Len(th_refs[t]) : th_plan[t][i] = p

\* C5: at most one thread at a time is inside the section guarded by the
\* lock of a given path.
C5_MutualExclusion ==
    \A p \in Paths : \A t1 \in Threads, t2 \in Threads :
        InsideSection(t1, p) /\ InsideSection(t2, p) => t1 = t2

\* Thread t waits in lock.acquire() for a lock object that thread u holds.
WaitsFor(t, u) ==
    /\ th_pc[t] = "acquire"
    /\ lock_owner[th_cur[t]] = u

\* C6: concurrent atomic operations never deadlock: no two operations wait
\* for a lock the other one holds.
C6_NoDeadlock ==
    \A t1 \in Threads, t2 \in Threads :
        t1 # t2 => ~(WaitsFor(t1, t2) /\ WaitsFor(t2, t1))

(***************************************************************************)
(* Claims about the filesystem effects of the atomic operations            *)
(***************************************************************************)

\* The sources of the last atomic_move call, as a set.
MoveSources == {a_call.sources[i] : i \in 1..Len(a_call.sources)}

\* C7: when atomic_move reports failure, every source file of the batch is
\* back at its original path with its original content, and none of them
\* remains in the target directory (batches of sources that lie outside
\* the target directory, sources sharing a basename included).
C7_FailedMoveRestoresSources ==
    /\ a_call.op = "move"
    /\ ~a_call.ok
    /\ \A s \in MoveSources : DirName(s) # a_call.target
    => \A s \in MoveSources :
           /\ afs[s] = afs_before[s]
           /\ Exists(afs_before, s)
                  => \A q \in FilePaths :
                         DirName(q) = a_call.target => afs[q] # afs_before[s]

\* C7 restricted to batches whose sources have pairwise distinct basenames
\* and lie outside the target directory: the rollback restores those.
C7_DistinctBasenamesRestored ==
    /\ a_call.op = "move"
    /\ ~a_call.ok
    /\ \A i, j \in 1..Len(a_call.sources) :
           BaseName(a_call.sources[i]) = BaseName(a_call.sources[j])
               => a_call.sources[i] = a_call.sources[j]
    /\ \A s \in MoveSources : DirName(s) # a_call.target
    => \A s \in MoveSources : afs[s] = afs_before[s]

(***************************************************************************)
(* Claims about rename_and_update_links                                    *)
(***************************************************************************)

\* The files that referenced the note when the last call began, are of a
\* rewritable type, are not themselves renamed or replaced by the call and
\* can be written.
RewrittenReferrers ==
    {f \in find_links_to_file(rfs_before, r_call.old_id, r_call.old_name) :
        /\ should_update_links(f.ext)
        /\ f \notin {r_call.old_path, r_call.new_path}
        /\ f \notin r_call.unwritable}

\* The link a link of the old note has to become.
CorrespondingForm(tok) ==
    IF MatchesStd(tok, r_call.old_id, r_call.old_name)
    THEN Std(r_call.new_id, r_call.new_name)
    ELSE IF MatchesIdOnly(tok, r_call.old_id)
    THEN IdOnly(r_call.new_id)
    ELSE IF MatchesAlt(tok, r_call.old_id, r_call.old_name)
    THEN Alt(r_call.new_id, r_call.new_name, tok.alias)
    ELSE tok

\* C3: after a rename with link rewriting, in every .md/.txt file that
\* referenced the note each link is replaced by the corresponding form:
\* [[old_id old_name]] by [[new_id new_name]], [[old_id]] by [[new_id]] and
\* [[old_id old_name|alias]] by [[new_id new_name|alias]].
C3_LinksBecomeCorrespondingForm ==
    r_call.op = "rename" /\ r_call.ok /\ r_call.scanned =>
        \A f \in RewrittenReferrers :
            /\ Len(rfs[f]) = Len(rfs_before[f])
            /\ \A i \in 1..Len(rfs[f]) : rfs[f][i] = CorrespondingForm(rfs_before[f][i])

\* C3, the part the code satisfies: the full form and the alias form are
\* replaced by their corresponding forms and other text is left alone.
C3_FullAndAliasFormsRewritten ==
    r_call.op = "rename" /\ r_call.ok /\ r_call.scanned =>
        \A f \in RewrittenReferrers :
            /\ Len(rfs[f]) = Len(rfs_before[f])
            /\ \A i \in 1..Len(rfs[f]) :
                   ~MatchesIdOnly(rfs_before[f][i], r_call.old_id)
                       => rfs[f][i] = CorrespondingForm(rfs_before[f][i])

\* C4: a call whose new_path already exists reports failure and overwrites
\* nothing; a call whose old_path does not exist reports failure and
\* changes no file.
C4_ConflictAndMissingSourceFail ==
    /\ r_call.op = "rename"
    /\ \/ ~RExists(rfs_before, r_call.old_path)
       \/ RExists(rfs_before, r_call.new_path) /\ r_call.new_path # r_call.old_path
    => ~r_call.ok /\ rfs = rfs_before

\* C4, the part the code satisfies: a missing old_path is reported as a
\* failure and no file changes.
C4_MissingSourceFails ==
    r_call.op = "rename" /\ ~RExists(rfs_before, r_call.old_path)
        => ~r_call.ok /\ rfs = rfs_before

(***************************************************************************)
(* Readings of the graph shared by the claims about move_files.            *)
(***************************************************************************)

\* The folgezettel_id of a node, <<>> when it has none.
FidOf(g, k) == node_props(g, k).id

\* The nodes whose child set lists k.
ParentsOf(g, k) == {p \in Keys(g.edges) : k \in g.edges.val[p]}

\* The real nodes: every node but the surrogates.
RealNodes(g) == g.all_nodes \ g.surrogate_nodes

\* The ID a file name carries, as the graph builder reads it.
IdOfPath(p) == WithParsedId(GraphNode(<<>>, <<>>, FALSE), SplitExt(PathBasename(p)).name).id

\* A call of move_files has returned.
Moved == m_call.op = "move"

(***************************************************************************)
(* C2: allocation of sibling IDs within one call.                          *)
(***************************************************************************)

\* next_child_id of the specification: the first unused letter after a
\* digit, the first unused two-digit number otherwise.
C2_NextChild(parent_id, used) ==
    IF IsDigit(parent_id[Len(parent_id)])
    THEN Append(parent_id, Letters[CHOOSE i \in 1..26 :
                   /\ Append(parent_id, Letters[i]) \notin used
                   /\ \A j \in 1..(i - 1) : Append(parent_id, Letters[j]) \in used])
    ELSE parent_id \o TwoDigits(CHOOSE i \in 1..99 :
                   /\ parent_id \o TwoDigits(i) \notin used
                   /\ \A j \in 1..(i - 1) : parent_id \o TwoDigits(j) \in used)

\* The IDs the sources from position i on are to get: each the next child
\* ID against the IDs of the target's children as the earlier sources left
\* them (kids: child node -> its ID).
RECURSIVE C2_Expected(_, _, _, _)
C2_Expected(parent_id, kids, sources, i) ==
    IF i > Len(sources) THEN <<>>
    ELSE LET new_id == C2_NextChild(parent_id, {kids[k] : k \in DOMAIN kids})
             updated == [k \in DOMAIN kids \cup {sources[i]} |->
                            IF k = sources[i] THEN new_id ELSE kids[k]]
         IN <<new_id>> \o C2_Expected(parent_id, updated, sources, i + 1)

\* The children of the target that carry an ID, before the call.
C2_KidsBefore ==
    LET g == m_call.graph_before
        kids == {k \in (IF m_call.target \in Keys(g.edges) THEN g.edges.val[m_call.target] ELSE {}) :
                    FidOf(g, k) # <<>>}
    IN [k \in kids |-> FidOf(g, k)]

\* The call the claim is about: the target carries an ID that no other
\* node carries, the sources are other nodes, and each source's file is on
\* disk where the graph says.
C2_Case ==
    /\ Moved
    /\ LET g == m_call.graph_before IN
       /\ FidOf(g, m_call.target) # <<>>
       /\ \A k \in g.all_nodes \ {m_call.target} : FidOf(g, k) # FidOf(g, m_call.target)
       /\ \A i \in 1..Len(m_call.sources) :
             /\ m_call.sources[i] # m_call.target
             /\ OnDisk(get_file_path(g, m_call.sources[i])) \in m_call.disk_before

\* C2: a move_files call with sources s1..sN and a target that carries a
\* Folgezettel ID succeeds and gives source i the next child ID of the
\* target against the target's children as updated by s1..s(i-1), so the N
\* sources get pairwise distinct sibling IDs in input order.
C2_SourcesGetSequentialSiblingIds ==
    C2_Case =>
        /\ m_call.ok
        /\ LET expected == C2_Expected(FidOf(m_call.graph_before, m_call.target),
                                       C2_KidsBefore, m_call.sources, 1)
           IN \A i \in 1..Len(m_call.sources) :
                 FidOf(graph, m_call.sources[i]) = expected[i]

\* C2, for a target all of whose children carry an ID.
C2_IdChildrenOnly ==
    (C2_Case /\ \A k \in (IF m_call.target \in Keys(m_call.graph_before.edges)
                          THEN m_call.graph_before.edges.val[m_call.target] ELSE {}) :
                    FidOf(m_call.graph_before, k) # <<>>)
    => C2_SourcesGetSequentialSiblingIds

(***************************************************************************)
(* C8: uniqueness of Folgezettel IDs under moves.                          *)
(***************************************************************************)

\* C8: from a graph built over a tree with pairwise distinct IDs, no
\* sequence of move_files calls makes two real nodes, or two files on disk,
\* carry the same non-empty folgezettel_id.
C8_IdsStayUnique ==
    /\ \A a, b \in RealNodes(graph) :
          a # b /\ FidOf(graph, a) # <<>> => FidOf(graph, a) # FidOf(graph, b)
    /\ \A p, q \in disk :
          p # q /\ IdOfPath(p) # <<>> => IdOfPath(p) # IdOfPath(q)

\* C8 for the graph as build_from_directory leaves it.
C8_BuiltIdsUnique == m_count = 0 => C8_IdsStayUnique

(***************************************************************************)
(* C9: every ID below root level has its ID parent.                        *)
(***************************************************************************)

\* A node with an ID of more than two characters is the child of a node
\* that carries the parent ID.
C9_HasIdParent(g, k) ==
    Len(FidOf(g, k)) > 2 =>
        \E p \in ParentsOf(g, k) : FidOf(g, p) = get_parent_id(FidOf(g, k))

\* C9: after build_combined_graph and any sequence of move_files calls,
\* every node whose folgezettel_id is longer than two characters has a
\* parent edge from a node whose folgezettel_id is get_parent_id of it.
C9_IdNodesHaveIdParent == \A k \in graph.all_nodes : C9_HasIdParent(graph, k)

\* C9 for the graph as build_from_directory leaves it.
C9_BuiltGraphHasIdParents == m_count = 0 => C9_IdNodesHaveIdParent

(***************************************************************************)
(* C10: at most one parent.                                                *)
(***************************************************************************)

\* C10: in the built graph and after any sequence of move_files calls every
\* node is in the child set of at most one parent, and a successful move
\* leaves each source under the target only.
C10_AtMostOneParent ==
    /\ \A k \in graph.all_nodes : Cardinality(ParentsOf(graph, k)) <= 1
    /\ Moved /\ m_call.ok =>
          \A i \in 1..Len(m_call.sources) :
             ParentsOf(graph, m_call.sources[i]) = {m_call.target}

\* A successful call re-parented a source that had another parent.
C10_MovedAwayFromParent ==
    /\ Moved /\ m_call.ok
    /\ \E i \in 1..Len(m_call.sources) :
          /\ ParentsOf(m_call.graph_before, m_call.sources[i]) # {}
          /\ m_call.target \notin ParentsOf(m_call.graph_before, m_call.sources[i])
          /\ ParentsOf(graph, m_call.sources[i]) = {m_call.target}

(***************************************************************************)
(* C11: stable IDs across a rename.                                        *)
(***************************************************************************)

\* The stable ID the graph builder gives the file at a path.
StableIdOf(stat, f) == get_file_creation_time(stat[f])

\* A rename_and_update_links call has succeeded (rename_file then rebuilds
\* the graph, which reads the stable ID of every file anew).
RenameDone == r_call.op = "rename" /\ r_call.ok

\* C11: after a successful rename the renamed file, and every other file
\* of the tree, the rewritten referencing files included, has the stable
\* ID it had before the rename.
C11_StableIdsKeptAcrossRename ==
    RenameDone =>
        /\ StableIdOf(rstat, r_call.new_path) = StableIdOf(rstat_before, r_call.old_path)
        /\ \A f \in RenPaths \ {r_call.old_path, r_call.new_path} :
              RExists(rfs_before, f) => StableIdOf(rstat, f) = StableIdOf(rstat_before, f)

\* C11 for the renamed file and the files that were not rewritten.
C11_UnwrittenFilesKeepId ==
    RenameDone =>
        /\ r_call.new_path \notin r_call.updated =>
              StableIdOf(rstat, r_call.new_path) = StableIdOf(rstat_before, r_call.old_path)
        /\ \A f \in RenPaths \ ({r_call.old_path, r_call.new_path} \cup r_call.updated) :
              RExists(rfs_before, f) => StableIdOf(rstat, f) = StableIdOf(rstat_before, f)

(***************************************************************************)
(* C12: no revert after a failure in the middle of a batch.                *)
(***************************************************************************)

\* The sources of the last call that were dealt with before the failure.
DoneSources == {m_call.sources[i] : i \in 1..m_call.done}

\* C12: when move_files fails on the k-th source, the call reports failure
\* and sources 1..k-1 are not reverted: their files are in the target
\* directory under the names the graph gives them, and they are attached
\* under the target in the graph.
C12_EarlierSourcesStayMoved ==
    (Moved /\ m_call.done < Len(m_call.sources)) =>
        /\ ~m_call.ok
        /\ \A s \in DoneSources :
              /\ m_call.target \in ParentsOf(graph, s)
              /\ graph.paths[s] = m_call.graph_before.paths[m_call.target]
              /\ OnDisk(get_file_path(graph, s)) \in disk
              /\ FidOf(m_call.graph_before, m_call.target) # <<>> => FidOf(graph, s) # <<>>

\* A call failed on its second or a later source.
C12_FailedAfterFirstSource ==
    Moved /\ ~m_call.ok /\ m_call.done >= 1 /\ m_call.done < Len(m_call.sources)

(***************************************************************************)
(* C13: a target that is no node.                                          *)
(***************************************************************************)

\* C13: move_files with a target stable ID that is not in the graph
\* reports failure, moves and renames no file, and leaves every node
\* attribute and edge of the graph unchanged.
C13_MissingTargetChangesNothing ==
    (Moved /\ m_call.target \notin m_call.graph_before.all_nodes) =>
        /\ ~m_call.ok
        /\ disk = m_call.disk_before
        /\ graph = m_call.graph_before

\* A call named a target that is no node, with a source that is a file on
\* disk.
C13_MissingTargetCalled ==
    /\ Moved
    /\ m_call.target \notin m_call.graph_before.all_nodes
    /\ \E i \in 1..Len(m_call.sources) :
          /\ m_call.sources[i] \in m_call.graph_before.all_nodes
          /\ OnDisk(get_file_path(m_call.graph_before, m_call.sources[i])) \in m_call.disk_before

(***************************************************************************)
(* C14: the next child ID of a parent.                                     *)
(***************************************************************************)

\* The call get_next_available_child_id(id_in, id_graph) has returned an ID.
NextChildReturned ==
    /\ id_call.op = "get_next_available_child_id"
    /\ ~id_call.result.raises

\* The returned ID is carried by no child, is accepted, and has id_in as
\* its parent.
NextChildIsGood ==
    /\ id_call.result.id \notin ChildIdsIn(id_graph)
    /\ is_valid_node_id(id_call.result.id)
    /\ get_parent_id(id_call.result.id) = id_in

\* C14: for every parent ID p of the grammar in the graph, ending in a
\* digit, a letter or a special character, and every set of existing
\* children, get_next_available_child_id(p, graph) returns an ID that no
\* child of p carries, that is_valid_node_id accepts and whose
\* get_parent_id is p.
C14_NextChildIsFreshValidChild ==
    NextChildReturned /\ MatchesIdGrammar(id_in) => NextChildIsGood

\* C14, the part the code satisfies: the parents of the grammar whose last
\* two characters are not both non-digits.
C14_GoodAfterDigits ==
    /\ NextChildReturned
    /\ MatchesIdGrammar(id_in)
    /\ (IsDigit(id_in[Len(id_in)]) \/ IsDigit(id_in[Len(id_in) - 1]))
    => NextChildIsGood

(***************************************************************************)
(* C15: the parent of an accepted ID.                                      *)
(***************************************************************************)

\* C15: for every ID x that is_valid_node_id accepts and that has more
\* than two characters, is_valid_node_id(get_parent_id(x)) is true.
C15_ParentOfAcceptedIsAccepted ==
    id_call.op = "get_parent_id" /\ Len(id_in) > 2
    => is_valid_node_id(id_call.result)

\* C15, the part the code satisfies: the IDs of the grammar.
C15_ParentOfGrammarIdIsAccepted ==
    id_call.op = "get_parent_id" /\ Len(id_in) > 2 /\ MatchesIdGrammar(id_in)
    => is_valid_node_id(id_call.result)

(***************************************************************************)
(* C16: the list of ancestors of an accepted ID.                           *)
(***************************************************************************)

\* The hops of an ID: its non-digit characters, each with the digits that
\* follow it.
C16_Hops(s) == Cardinality({i \in 1..Len(s) : ~IsDigit(s[i])})

\* The levels below the root: one per non-digit character and one per pair
\* of digits that follows a non-digit character.
C16_Levels(s) == C16_Hops(s) + ((Len(s) - 2 - C16_Hops(s)) \div 2)

\* The list starts at the parent of x, each entry is followed by its own
\* parent, every entry is shorter than the one before, and the last entry
\* has no parent.
C16_NearestFirst(x, parents) ==
    /\ \A i \in 1..Len(parents) :
          /\ parents[i] = get_parent_id(IF i = 1 THEN x ELSE parents[i - 1])
          /\ Len(parents[i]) < Len(IF i = 1 THEN x ELSE parents[i - 1])
    /\ get_parent_id(IF parents = <<>> THEN x ELSE parents[Len(parents)]) = <<>>

\* C16 as stated: get_all_parent_ids(x) lists the ancestors nearest first
\* with strictly decreasing length, and as many of them as x has hops.
C16_AncestorsCountHops ==
    id_call.op = "get_all_parent_ids"
    => /\ C16_NearestFirst(id_in, id_call.result)
       /\ Len(id_call.result) = C16_Hops(id_in)

\* C16: get_all_parent_ids(x) terminates and lists the ancestors nearest
\* first with strictly decreasing length; an ID of the grammar has one
\* ancestor per non-digit character and one more per hop that has its two
\* digits.
C16_AncestorsCountLevels ==
    id_call.op = "get_all_parent_ids"
    => /\ C16_NearestFirst(id_in, id_call.result)
       /\ (MatchesIdGrammar(id_in) => Len(id_call.result) = C16_Levels(id_in))

\* The ancestors of an ID of the grammar that has a hop with digits were
\* listed.
C16_ListedForHopWithDigits ==
    /\ id_call.op = "get_all_parent_ids"
    /\ MatchesIdGrammar(id_in)
    /\ Len(id_call.result) > C16_Hops(id_in)

(***************************************************************************)
(* C17: files that are neither .md nor .txt.                               *)
(***************************************************************************)

\* The files whose extension is neither .md nor .txt.
C17_OtherType(f) == Lower(f.ext) \notin {".md", ".txt"}

\* C17: rename_and_update_links never changes the content of a file whose
\* extension is not .md or .txt, even when the file holds the text of a link
\* to the renamed note and the reference search returns it, and such a file
\* is never in the returned list.  (A file of such a type that is itself
\* renamed carries its content to the new path as it was.)
C17_OtherTypesUntouched ==
    r_call.op = "rename" =>
        \A f \in {x \in RenPaths : C17_OtherType(x)} :
            /\ f \notin r_call.updated
            /\ f \notin {r_call.old_path, r_call.new_path} => rfs[f] = rfs_before[f]
            /\ r_call.ok /\ f = r_call.new_path => rfs[f] = rfs_before[r_call.old_path]

\* A note was renamed, the search returned a .jpg file holding links to it,
\* and a .md file holding the same links was rewritten.
C17_JpgWithLinkSearched ==
    /\ r_call.op = "rename" /\ r_call.ok /\ r_call.scanned
    /\ [stem |-> "ref", ext |-> ".jpg"]
           \in find_links_to_file(rfs_before, r_call.old_id, r_call.old_name)
    /\ r_call.updated # {}
    /\ \E f \in r_call.updated : rfs[f] # rfs_before[f]

(***************************************************************************)
(* C18: a rewrite that fails after the rename.                             *)
(***************************************************************************)

\* The referencing files the search returned for the last call.
C18_Affected == find_links_to_file(rfs_before, r_call.old_id, r_call.old_name)

\* os.rename succeeded and the rewrite of a referencing file of a
\* rewritable type failed.
C18_RewriteFailed ==
    /\ r_call.op = "rename" /\ r_call.scanned
    /\ ~RenameRaises(rfs_before, os_name, r_call.old_path, r_call.new_path)
    /\ \E f \in C18_Affected : should_update_links(f.ext) /\ f \notin r_call.updated

\* The files that were written during the call.
C18_Written == {f \in RenPaths : rstat[f].mtime = CallTime}

\* The rename stands, success is reported, and the returned list is the set
\* of written files, without the files that could not be written.
C18_RenameKeptAndListPartial ==
    /\ r_call.ok
    /\ RExists(rfs, r_call.new_path)
    /\ r_call.old_path # r_call.new_path => ~RExists(rfs, r_call.old_path)
    /\ r_call.updated = C18_Written
    /\ r_call.updated \cap r_call.unwritable = {}

\* C18: when the rewrite of some referencing files fails after the rename
\* has succeeded, the rename is not undone, success is reported, and the
\* returned list holds exactly the referencing files that were rewritten:
\* the files whose rewrite failed and the renamed file itself are not in it.
C18_PartialListWithoutRenamedFile ==
    C18_RewriteFailed =>
        /\ C18_RenameKeptAndListPartial
        /\ r_call.new_path \notin r_call.updated
        /\ r_call.old_path \notin r_call.updated

\* C18, the part the code satisfies: the rename stands, success is reported
\* and the list is partial; the renamed file is not in the list when the
\* new path differs from the old one and held no file.
C18_PartialListForFreshPath ==
    C18_RewriteFailed =>
        /\ C18_RenameKeptAndListPartial
        /\ (r_call.old_path # r_call.new_path /\ ~RExists(rfs_before, r_call.new_path)
               => /\ r_call.new_path \notin r_call.updated
                  /\ r_call.old_path \notin r_call.updated)

(***************************************************************************)
(* C19: the path of a stable ID that is no node.                           *)
(***************************************************************************)

\* C19: resolving the path of a stable ID that is not a node of the graph
\* reports NotFound (ValueError) to the caller; it never returns a path
\* built from defaulted, empty node fields.
C19_MissingNodeReported ==
    m_call.op = "get_file_path" /\ m_call.stable_id \notin graph.all_nodes
        => m_call.raises

\* C19, the part the code satisfies: the path of a file node of the built
\* graph is returned and is the path of the file on disk.
C19_FileNodeResolved ==
    m_call.op = "get_file_path" /\ m_call.stable_id \in FileNodes(graph)
        => ~m_call.raises /\ OnDisk(m_call.path) \in disk

(***************************************************************************)
(* C20: the graph built twice.                                             *)
(***************************************************************************)

\* The node set, the node attributes and the edge set of two graphs agree.
C20_SameGraph(g, h) ==
    /\ g.all_nodes = h.all_nodes
    /\ \A k \in g.all_nodes : node_props(g, k) = node_props(h, k)
    /\ g.surrogate_nodes = h.surrogate_nodes
    /\ Keys(g.edges) = Keys(h.edges)
    /\ \A k \in Keys(g.edges) : g.edges.val[k] = h.edges.val[k]

\* C20: building the graph twice over a tree that is not modified in
\* between yields the same node set, the same node attributes and the same
\* edge set, including the node chosen as parent when several nodes carry
\* the parent's ID and the surrogates created.
C20_RebuildYieldsSameGraph ==
    m_call.op = "build" /\ m_count >= 2 => C20_SameGraph(graph, m_call.graph_before)

\* The graph was built a second time, with the directory listed in another
\* order, over a tree in which two nodes carry the ID of a child's parent
\* and a surrogate is created.
C20_RebuiltFromOtherListing ==
    /\ m_call.op = "build" /\ m_count >= 2
    /\ m_call.listing # m_call.listing_before
    /\ graph.surrogate_nodes # {}
    /\ \E a, b, c \in graph.all_nodes :
          /\ a # b
          /\ FidOf(graph, a) # <<>>
          /\ FidOf(graph, a) = FidOf(graph, b)
          /\ get_parent_id(FidOf(graph, c)) = FidOf(graph, a)

(***************************************************************************)
(* C21: ID parents and folder parents in a built graph.                    *)
(***************************************************************************)

\* The path of the directory that contains the entry of node k.
C21_ContainingPath(g, k) ==
    IF k \in g.folder_nodes THEN PathDirname(g.paths[k]) ELSE g.paths[k]

\* The directory nodes that stand for the directory containing node k;
\* none when the entry lies directly under the root.
C21_ContainingDir(g, k) ==
    IF C21_ContainingPath(g, k) \in {<<>>, <<".">>} THEN {}
    ELSE {d \in g.folder_nodes : g.paths[d] = C21_ContainingPath(g, k)}

C22_SharedTarget(t, u) ==
    /\ t # u
    /\ mv_pc[t] = "done" /\ mv_pc[u] = "done"
    /\ mv_loc[t].target = mv_loc[u].target
    /\ mv_loc[t].target_node.id # <<>>
    /\ mv_loc[t].source # mv_loc[u].source
    /\ mv_loc[t].target \notin {mv_loc[t].source, mv_loc[u].source}

\* The two sources carry different IDs and are both children of the target.
C22_BothAllocated(t, u) ==
    /\ FidOf(graph, mv_loc[t].source) # FidOf(graph, mv_loc[u].source)
    /\ mv_loc[t].target \in ParentsOf(graph, mv_loc[t].source)
    /\ mv_loc[u].target \in ParentsOf(graph, mv_loc[u].source)

\* C22: moves into the same ID-bearing target issued from different
\* threads are serialized, so the two moves never allocate the same sibling
\* ID and never lose an edge update.
C22_SharedTargetMovesSerialized ==
    \A t, u \in MoveThreads : C22_SharedTarget(t, u) => C22_BothAllocated(t, u)

\* C22, the part the code satisfies: two moves of which one began after
\* the other had returned get different IDs and keep both edges.
C22_MovesInTurnGetDistinctIds ==
    \A t, u \in MoveThreads :
        C22_SharedTarget(t, u) /\ ~mv_loc[t].overlap /\ ~mv_loc[u].overlap
            => C22_BothAllocated(t, u)

(***************************************************************************)
(* C23: the lock table when no operation is under way.                     *)
(***************************************************************************)

\* C23: whenever no thread is inside an atomic operation or inside
\* _get_file_lock, the lock table _file_locks is empty.
C23_TableEmptyWhenQuiet ==
    (\A t \in Threads : th_pc[t] = "idle") => \A p \in Paths : file_locks[p] = NoLock
\* Every thread has returned from an operation, none is under way, and the
\* table is empty.
C23_AllReturned ==
    /\ \A t \in Threads : th_pc[t] = "idle" /\ th_kind[t] = "returned"
    /\ \A p \in Paths : file_locks[p] = NoLock
(***************************************************************************)
(* C24: when atomic_rename or atomic_create reports failure, the disk is   *)
(* as it was before the call: the file of old_path is at old_path, a file  *)
(* that was at new_path is still there with its content, and a failed      *)
(* atomic_create has not removed a file that was at the path.              *)
(***************************************************************************)
C24_FailedCall == a_call.op \in {"rename", "create"} /\ ~a_call.ok

C24_FailureLeavesDiskAsBefore == C24_FailedCall => afs = afs_before

\* The part that holds: a failed atomic_rename whose new_path held no file
\* and whose old_path held one leaves the disk as it was.
C24_FailedRenameToFreePathRestored ==
    (/\ a_call.op = "rename"
     /\ ~a_call.ok
     /\ Exists(afs_before, a_call.old_path)
     /\ ~Exists(afs_before, a_call.new_path)) => afs = afs_before
(***************************************************************************)
(* C25: the file type that decides between a plain rename and a rename     *)
(* with link rewriting.                                                    *)
(***************************************************************************)

\* An extension outside {.md, .txt}.
C25_NotRewritable(ext) == Lower(ext) \notin {".md", ".txt"}

\* C25: rename_and_update_links renames without scanning and without
\* rewriting any file exactly when the extension of the destination path is
\* outside {.md, .txt}; otherwise it scans for references before the
\* rename.
C25_DestinationTypeDecides ==
    r_call.op = "rename" =>
        IF C25_NotRewritable(r_call.new_path.ext)
        THEN ~r_call.scanned /\ r_call.updated = {}
        ELSE r_call.scanned

\* What the code does: the extension of the path the file is renamed from
\* decides, and a plain rename leaves every other file as it was.
C25_SourceTypeDecides ==
    r_call.op = "rename" =>
        IF C25_NotRewritable(r_call.old_path.ext)
        THEN /\ ~r_call.scanned
             /\ r_call.updated = {}
             /\ \A f \in RenPaths \ {r_call.old_path, r_call.new_path} :
                    rfs[f] = rfs_before[f]
        ELSE r_call.scanned
(***************************************************************************)
(* C26: one node per entry of the tree.                                    *)
(***************************************************************************)

\* The files of the tree on disk that have a supported extension.
C26_SupportedFiles ==
    {p \in disk : Lower(SplitExt(PathBasename(p)).ext) \in SUPPORTED_EXTENSIONS}

\* The timestamps of the supported files among the entries from the i-th
\* on.
RECURSIVE C26_TimesUnder(_, _)
C26_TimesUnder(entries, i) ==
    IF i > Len(entries) THEN {}
    ELSE LET e == entries[i] IN
         (IF e.is_dir THEN C26_TimesUnder(e.entries, 1)
          ELSE IF Lower(SplitExt(e.entry).ext) \in SUPPORTED_EXTENSIONS
          THEN {e.ctime} ELSE {})
         \cup C26_TimesUnder(entries, i + 1)

\* C26: after a build every file with a supported extension has a node of
\* its own in the graph, whatever the timestamps of the files are: no two
\* entries share a stable ID.
C26_EverySupportedFileHasNode ==
    m_call.op = "build" =>
        /\ \A p \in C26_SupportedFiles :
               \E k \in FileNodes(graph) : OnDisk(get_file_path(graph, k)) = p
        /\ Cardinality(FileNodes(graph)) = Cardinality(C26_SupportedFiles)

\* The same for trees whose supported files have pairwise different
\* timestamps.
C26_DistinctTimesGiveNodePerFile ==
    /\ m_call.op = "build"
    /\ Cardinality(C26_TimesUnder(dir_tree.entries, 1)) = Cardinality(C26_SupportedFiles)
    => /\ \A p \in C26_SupportedFiles :
              \E k \in FileNodes(graph) : OnDisk(get_file_path(graph, k)) = p
       /\ Cardinality(FileNodes(graph)) = Cardinality(C26_SupportedFiles)
(***************************************************************************)
(* C27: the node data of surrogates.                                       *)
(***************************************************************************)

\* The nodes build_combined_graph made up for a parent ID without a file.
C27_Synthesized == {k \in Keys(m_call.nodes) : k[1] = "surrogate_"}

\* C27: in the node data build_combined_graph returns, every synthesized
\* node has is_surrogate true and an empty name, path and extension, and
\* every node of a real entry has is_surrogate false.
C27_SurrogatesMarkedAndEmpty ==
    m_call.op = "build" =>
        \A k \in Keys(m_call.nodes) :
            IF k \in C27_Synthesized
            THEN /\ m_call.nodes.val[k].is_surrogate
                 /\ m_call.nodes.val[k].name = <<>>
                 /\ m_call.nodes.val[k].path = <<>>
                 /\ m_call.nodes.val[k].extension = ""
            ELSE ~m_call.nodes.val[k].is_surrogate

\* What the code gives: a synthesized node has an empty extension and is
\* no directory, its key is "surrogate_" and its ID, and FileGraph lists
\* exactly these nodes as surrogate_nodes; real entries have is_surrogate
\* false.
C27_SurrogatesKnownByKey ==
    m_call.op = "build" =>
        /\ graph.surrogate_nodes = C27_Synthesized
        /\ \A k \in Keys(m_call.nodes) :
               IF k \in C27_Synthesized
               THEN /\ m_call.nodes.val[k].extension = ""
                    /\ ~m_call.nodes.val[k].is_directory
                    /\ k = SurrogateKey(m_call.nodes.val[k].id)
               ELSE ~m_call.nodes.val[k].is_surrogate
(***************************************************************************)
(* C28: FileManager.create_file.                                           *)
(***************************************************************************)

\* C28: create_file with a non-empty path that can be written creates the
\* file, reports success and rebuilds the graph so that the file is a node
\* of it; it reports failure only when the file was not created.
C28_WritableCreateReported ==
    m_call.op = "create_file" /\ m_call.file_path # <<>> =>
        /\ m_call.writable =>
               /\ m_call.file_path \in disk
               /\ m_call.success
               /\ \E k \in FileNodes(graph) :
                      OnDisk(get_file_path(graph, k)) = m_call.file_path
        /\ ~m_call.success => m_call.file_path \notin disk

\* What the code gives: the file is on disk exactly when it could be
\* written, and an empty path raises ValueError and changes nothing.
C28_FileWrittenWhenWritable ==
    m_call.op = "create_file" =>
        IF m_call.file_path = <<>>
        THEN m_call.raises = "ValueError"
        ELSE (m_call.file_path \in disk) <=> m_call.writable
(***************************************************************************)
(* C29: a call that runs alone.                                            *)
(***************************************************************************)

\* Thread t runs its call alone: no other thread has entered an operation.
C29_Alone(t) ==
    \A u \in Threads \ {t} : th_pc[u] = "idle" /\ th_kind[u] = "none"

\* C29: an atomic_move, atomic_rename or atomic_create call that runs alone
\* never blocks in lock.acquire() on a path lock it holds itself, whatever
\* its arguments are (old_path equal to new_path, a source listed twice, a
\* target that is one of the sources).
C29_CallAloneNeverWaitsForItself ==
    \A t \in Threads : C29_Alone(t) => ~WaitsFor(t, t)

\* The same for calls whose paths to lock are pairwise different: these
\* never wait for themselves.
C29_DistinctPathsNeverWaitForItself ==
    \A t \in Threads :
        (\A i, j \in 1..Len(th_plan[t]) : i # j => th_plan[t][i] # th_plan[t][j])
            => ~WaitsFor(t, t)
(***************************************************************************)
(* C30: no cycle in the edge set after move_files.                         *)
(***************************************************************************)

\* The nodes of S and their parents, n levels up.
RECURSIVE C30_Closure(_, _, _)
C30_Closure(g, S, n) ==
    IF n = 0 THEN S
    ELSE C30_Closure(g, S \cup UNION {ParentsOf(g, k) : k \in S}, n - 1)

\* The parent of a node, its parent and so on.
C30_Ancestors(g, k) == C30_Closure(g, ParentsOf(g, k), Cardinality(g.all_nodes))

C30_Acyclic(g) == \A k \in g.all_nodes : k \notin C30_Ancestors(g, k)

\* C30: after any sequence of move_files calls the edge set is acyclic: no
\* node is its own parent or ancestor, also when the target is the source
\* itself or a descendant of it.
C30_EdgesAcyclic == C30_Acyclic(graph)

\* The same for calls whose target is neither a source nor has a source
\* among its ancestors: these keep the edge set acyclic.
C30_MoveOutsideOwnSubtreeKeepsAcyclic ==
    /\ m_call.op = "move"
    /\ C30_Acyclic(m_call.graph_before)
    /\ \A i \in 1..Len(m_call.sources) :
           /\ m_call.sources[i] # m_call.target
           /\ m_call.sources[i] \notin C30_Ancestors(m_call.graph_before, m_call.target)
    => C30_Acyclic(graph)

====
